---- MODULE Spec2Model ----
(***************************************************************************)
(* A model of the surrealdb.rs client: the Router (route queue, reply      *)
(* channels, shutdown sentinel), the embedded dispatch loop                *)
(* (src/storage/native.rs) and the embedded dispatcher                     *)
(* (src/storage/mod.rs).                                                   *)
(***************************************************************************)
EXTENDS Integers, Sequences, FiniteSets, TLC

(***************************************************************************)
(* Bounds of the model.                                                    *)
(***************************************************************************)
MaxCalls == 2
MaxHandles == 2
MaxRows == 2
MaxOps == 2
MaxChain == 2
MaxBinds == 2
MaxIds == 3

(***************************************************************************)
(* surrealdb::sql::Value, restricted to the variants the dispatcher        *)
(* inspects.  Every value is a record of a tag t, a name s (the text of a  *)
(* strand, a record id, a table or an object) and the elements v of an     *)
(* array.                                                                  *)
(***************************************************************************)
None == [t |-> "none", s |-> "", v |-> <<>>]
Null == [t |-> "null", s |-> "", v |-> <<>>]
Strand(str) == [t |-> "strand", s |-> str, v |-> <<>>]
Thing(id) == [t |-> "thing", s |-> id, v |-> <<>>]
Table(tb) == [t |-> "table", s |-> tb, v |-> <<>>]
Object(name) == [t |-> "object", s |-> name, v |-> <<>>]
\* an Object of entries, each the pair <<Strand(key), value>>, keys distinct
ObjectOf(entries) == [t |-> "object", s |-> "", v |-> entries]
Uuid(id) == [t |-> "uuid", s |-> id, v |-> <<>>]
Array(vec) == [t |-> "array", s |-> "", v |-> vec]
\* std::ops::Bound of a record id: "Included", "Excluded" or "Unbounded"
Bound(kind, id) == [t |-> kind, s |-> id, v |-> <<>>]
\* the record range of a table, from `beg` to `end`
Range(tb, beg, end) == [t |-> "range", s |-> tb, v |-> <<beg, end>>]

\* crate::Error: an error kind and its context
Error(kind, ctx) == [kind |-> kind, ctx |-> ctx]
NoError == Error("", "")

\* Result<T>: Ok(x) holds x in val, Err(e) holds e in err
Ok(x) == [ok |-> TRUE, val |-> <<x>>, err |-> NoError]
Err(e) == [ok |-> FALSE, val |-> <<>>, err |-> e]
Unwrap(result) == result.val[1]

\* param::DbResponse: Other(Value) or Query(QueryResponse)
Other(value) == [kind |-> "Other", value |-> <<value>>, results |-> <<>>]
\* a query response wrapped in the variant of the other methods
Query_other(results) == [kind |-> "Other", value |-> <<>>, results |-> results]

Query(results) == [kind |-> "Query", value |-> <<>>, results |-> results]

\* Option<String> of Session.ns and Session.db
NoneStr == "<None>"

\* A BTreeMap<String, Value> is a function from its key set to values.
EmptyMap == [k \in {} |-> None]
\* an insert that keeps the earlier value of a key already in the map
Insert_absent(map, key, value) ==
    [k \in DOMAIN map \cup {key} |-> IF k \in DOMAIN map THEN map[k] ELSE value]

Insert(map, key, value) == [k \in DOMAIN map \cup {key} |-> IF k = key THEN value ELSE map[k]]
Remove(map, key) == [k \in DOMAIN map \ {key} |-> map[k]]
\* an append that keeps the entry of `map` when both hold the key
Append_map_keep(map, other) ==
    [k \in DOMAIN map \cup DOMAIN other |-> IF k \in DOMAIN map THEN map[k] ELSE other[k]]

\* BTreeMap::append: every entry of `other` is moved into `map`, replacing
\* the entry of `map` with the same key.
Append_map(map, other) ==
    [k \in DOMAIN map \cup DOMAIN other |-> IF k \in DOMAIN other THEN other[k] ELSE map[k]]

\* param::Param: `other`, `query` (statements and bindings) and `file`
NoQuery == [some |-> FALSE, stmts |-> <<>>, bindings |-> EmptyMap]
SomeQuery(stmts, bindings) == [some |-> TRUE, stmts |-> stmts, bindings |-> bindings]
NoFile == "<None>"
Param(other) == [other |-> other, query |-> NoQuery, file |-> NoFile]
ParamQuery(stmts, bindings) ==
    [other |-> <<>>, query |-> SomeQuery(stmts, bindings), file |-> NoFile]
ParamFile(path) == [other |-> <<>>, query |-> NoQuery, file |-> path]

(***************************************************************************)
(* Statement builders (src/lib.rs).  A statement is a record of its kind,  *)
(* its `what` targets, its data clause and its output clause.              *)
(***************************************************************************)
NoData == [kind |-> "None", value |-> None]
\* A statement given to the engine as text (Datastore::execute) or as an
\* already parsed statement of a query
Sql(text) == [stmt |-> "Sql", what |-> <<>>, data |-> NoData, output |-> "", text |-> text]
Data(kind, value) == IF value.t = "none" THEN NoData ELSE [kind |-> kind, value |-> value]

\* split_params is defined for one or two parameters; every other length
\* reaches unreachable!().
split_ok(params) == Len(params) \in {1, 2}

\* a split that takes every target for a single record
split_params_one(params) ==
    LET what == params[1]
        data == IF Len(params) = 2 THEN params[2] ELSE None
    IN  [one |-> TRUE,
         what |-> IF what.t = "array" THEN what.v ELSE <<what>>,
         data |-> data]

split_params(params) ==
    LET what == params[1]
        data == IF Len(params) = 2 THEN params[2] ELSE None
    IN  [one |-> what.t = "thing",
         what |-> IF what.t = "array" THEN what.v ELSE <<what>>,
         data |-> data]

create_statement(params) ==
    LET s == split_params(params)
    IN  [stmt |-> "Create", what |-> s.what,
         data |-> Data("Content", s.data), output |-> "After", text |-> ""]

update_statement(params) ==
    LET s == split_params(params)
    IN  [one |-> s.one,
         statement |-> [stmt |-> "Update", what |-> s.what,
                        data |-> Data("Content", s.data), output |-> "After", text |-> ""]]

patch_statement(params) ==
    LET s == split_params(params)
    IN  [one |-> s.one,
         statement |-> [stmt |-> "Update", what |-> s.what,
                        data |-> Data("Patch", s.data), output |-> "Diff", text |-> ""]]

merge_statement(params) ==
    LET s == split_params(params)
    IN  [one |-> s.one,
         statement |-> [stmt |-> "Update", what |-> s.what,
                        data |-> Data("Merge", s.data), output |-> "After", text |-> ""]]

select_statement(params) ==
    LET s == split_params(params)
    IN  [one |-> s.one,
         statement |-> [stmt |-> "Select", what |-> s.what,
                        data |-> NoData, output |-> "All", text |-> ""]]

delete_statement(params) ==
    LET s == split_params(params)
    IN  [stmt |-> "Delete", what |-> s.what, data |-> NoData, output |-> "None", text |-> ""]

(***************************************************************************)
(* process and take (src/storage/mod.rs).  `responses` is the engine's     *)
(* Vec<Response>: one Result<Value> per statement.                         *)
(***************************************************************************)
\* ErrorKind::Query.with_context(error)
QueryError(e) == Error("Query", e.ctx)

process_one(response) ==
    IF response.ok
    THEN LET value == Unwrap(response)
         IN  CASE value.t = "array" -> Ok(value.v)
               [] value.t \in {"none", "null"} -> Ok(<<>>)
               [] OTHER -> Ok(<<value>>)
    ELSE Err(QueryError(response.err))

\* a process that leaves out the statements whose result is none or null
process_some(responses) ==
    Ok(SelectSeq([i \in 1..Len(responses) |-> process_one(responses[i])],
                 LAMBDA r : ~r.ok \/ Unwrap(r) # <<>>))

process(responses) == Ok([i \in 1..Len(responses) |-> process_one(responses[i])])

\* a take that goes on unwrapping a one-element array inside the one it
\* unwrapped
take_deep(one, responses) ==
    LET results == Unwrap(process(responses))
        default == IF one THEN Ok(None) ELSE Ok(Array(<<>>))
    IN  IF Len(results) = 0 THEN default
        ELSE LET result == results[Len(results)]
             IN  IF ~result.ok THEN Err(result.err)
                 ELSE LET vec == Unwrap(result)
                      IN  IF ~one THEN Ok(Array(vec))
                          ELSE IF Len(vec) = 0 THEN default
                          ELSE LET last == vec[Len(vec)]
                               IN  CASE last.t = "array" ->
                                          IF Len(last.v) # 1 THEN default
                                          ELSE IF last.v[1].t = "array" /\ Len(last.v[1].v) = 1
                                          THEN Ok(last.v[1].v[1])
                                          ELSE Ok(last.v[1])
                                     [] last.t \in {"none", "null"} -> default
                                     [] OTHER -> Ok(last)

\* take: the last result of the last statement; for `one`, a one-element
\* array is replaced by its element, none / null / any other array by none
take(one, responses) ==
    LET results == Unwrap(process(responses))
        default == IF one THEN Ok(None) ELSE Ok(Array(<<>>))
    IN  IF Len(results) = 0 THEN default
        ELSE LET result == results[Len(results)]
             IN  IF ~result.ok THEN Err(result.err)
                 ELSE LET vec == Unwrap(result)
                      IN  IF ~one THEN Ok(Array(vec))
                          ELSE IF Len(vec) = 0 THEN default
                          ELSE LET last == vec[Len(vec)]
                               IN  CASE last.t = "array" ->
                                          IF Len(last.v) = 1 THEN Ok(last.v[1]) ELSE default
                                     [] last.t \in {"none", "null"} -> default
                                     [] OTHER -> Ok(last)

(***************************************************************************)
(* QueryResponse and QueryResult (src/method/query/response.rs).  A        *)
(* QueryResponse is the sequence of QueryResults, a QueryResult the Result *)
(* of a statement: its list of values, or its error.  Statement and item   *)
(* indexes count from 0, as usize does.                                    *)
(***************************************************************************)
\* T::default(): None of an Option, the empty list of a Vec
Default == [t |-> "default", s |-> "", v |-> <<>>]

\* SliceIndex<[Value]>: the index i, the range lo..hi, or the full range ..
Idx(i) == [kind |-> "index", lo |-> i, hi |-> i + 1]
Rng(lo, hi) == [kind |-> "range", lo |-> lo, hi |-> hi]
RangeFull == [kind |-> "full", lo |-> 0, hi |-> 0]

\* <[Value]>::get(index_or_range): Some(item), Some(the items of the range)
\* when the whole range is inside the list, else None
slice_get(values, ior) ==
    CASE ior.kind = "index" ->
             IF ior.lo < Len(values) THEN [some |-> TRUE, item |-> values[ior.lo + 1]]
             ELSE [some |-> FALSE, item |-> Default]
      [] ior.kind = "range" ->
             IF ior.lo <= ior.hi /\ ior.hi <= Len(values)
             THEN [some |-> TRUE, item |-> Array(SubSeq(values, ior.lo + 1, ior.hi))]
             ELSE [some |-> FALSE, item |-> Default]
      [] OTHER -> [some |-> TRUE, item |-> Array(values)]

\* a get that treats the error of a statement as an empty list
QueryResult_get_lenient(query_result, index_or_range) ==
    LET some_slice == slice_get(IF query_result.ok THEN Unwrap(query_result) ELSE <<>>,
                                index_or_range)
    IN  IF some_slice.some THEN Ok(some_slice.item) ELSE Ok(Default)

\* QueryResult::get: the statement's error, else the deserialized item or
\* items, else the default
QueryResult_get(query_result, index_or_range) ==
    IF ~query_result.ok THEN Err(query_result.err)
    ELSE LET some_slice == slice_get(Unwrap(query_result), index_or_range)
         IN  IF some_slice.some THEN Ok(some_slice.item) ELSE Ok(Default)

\* QueryResponse::query_result: self.0.get(n)
query_result(response, n) ==
    IF n < Len(response) THEN [some |-> TRUE, result |-> response[n + 1]]
    ELSE [some |-> FALSE, result |-> Ok(<<>>)]

\* QueryResponse::get
QueryResponse_get(response, query_index, index_or_range) ==
    LET found == query_result(response, query_index)
    IN  IF ~found.some THEN Ok(Default) ELSE QueryResult_get(found.result, index_or_range)

\* what an accessor call gives: a panic, or the Option (for query_result)
\* of a Result; the list of a QueryResult is shown as an array
Accessed(panic, some, res) == [panic |-> panic, some |-> some, res |-> res]
AsArray(result) == IF result.ok THEN Ok(Array(Unwrap(result))) ELSE Err(result.err)

\* Index<usize> for QueryResponse: &self.0[index], which panics when the
\* index is out of bounds
index(response, n) ==
    IF n < Len(response) THEN Accessed(FALSE, TRUE, AsArray(response[n + 1]))
    ELSE Accessed(TRUE, FALSE, Err(Error("Panic", "index out of bounds")))

(***************************************************************************)
(* The embedded dispatcher: router of src/storage/mod.rs.                  *)
(*                                                                         *)
(* A request is [method, param].  The dispatcher reads and writes the      *)
(* loop's `session` (ns, db) and `vars`.  Its environment `env` is what    *)
(* the collaborators return during the call: env.kvs is the result of      *)
(* Datastore::process / Datastore::execute, env.io tells whether the file  *)
(* of an Export or Import could be opened and copied.                      *)
(*                                                                         *)
(* The result is a record: tag "reply" with the Result<DbResponse> in      *)
(* res, or tag "panic" when the call reaches unreachable!() / expect();    *)
(* the session and vars after the call; and `call`, the arguments the      *)
(* engine was invoked with, if it was.                                     *)
(***************************************************************************)
NoCall == [called |-> FALSE, query |-> <<>>, ns |-> NoneStr, db |-> NoneStr, vars |-> EmptyMap]
KvsCall(query, session, vars) ==
    [called |-> TRUE, query |-> query, ns |-> session.ns, db |-> session.db, vars |-> vars]

\* a dispatcher that forgets the namespace, the database and the bindings
\* when it replies with an error
Reply_clear(res, session, vars, call) ==
    [tag |-> "reply", res |-> res,
     session |-> IF res.ok THEN session ELSE [ns |-> NoneStr, db |-> NoneStr],
     vars |-> IF res.ok THEN vars ELSE EmptyMap, call |-> call]

Reply(res, session, vars, call) ==
    [tag |-> "reply", res |-> res, session |-> session, vars |-> vars, call |-> call]
\* a dispatcher that answers with an error where the code is unreachable!()
Panic_reply(session, vars) ==
    [tag |-> "reply", res |-> Err(Error("Api", "unsupported")), session |-> session,
     vars |-> vars, call |-> NoCall]

\* unreachable!() / expect(): the dispatch task panics
Panic(session, vars) ==
    [tag |-> "panic", res |-> Err(Error("Panic", "unreachable")), session |-> session,
     vars |-> vars, call |-> NoCall]

\* a dispatcher that hands the loop's own map to the engine in place of the
\* variables bound for the statement
process_and_take_vars(one, statement, session, vars, bound, env) ==
    LET call == KvsCall(<<statement>>, session, vars)
    IN  IF ~env.kvs.ok THEN Reply(Err(env.kvs.err), session, vars, call)
        ELSE LET value == take(one, Unwrap(env.kvs))
             IN  IF value.ok
                 THEN Reply(Ok(Other(Unwrap(value))), session, vars, call)
                 ELSE Reply(Err(value.err), session, vars, call)

\* `kvs.process(query, session, Some(bound), strict).await?` followed by
\* `take(one, response).await?` and `Ok(DbResponse::Other(value))`; `bound`
\* is the variable map handed to the engine, `vars` the loop's own map.
process_and_take(one, statement, session, vars, bound, env) ==
    LET call == KvsCall(<<statement>>, session, bound)
    IN  IF ~env.kvs.ok THEN Reply(Err(env.kvs.err), session, vars, call)
        ELSE LET value == take(one, Unwrap(env.kvs))
             IN  IF value.ok
                 THEN Reply(Ok(Other(Unwrap(value))), session, vars, call)
                 ELSE Reply(Err(value.err), session, vars, call)

\* a loop over the responses that keeps the last error instead of
\* returning at the first
first_error_last(responses) ==
    LET errors == SelectSeq(responses, LAMBDA response : ~response.ok)
    IN  IF errors = <<>> THEN Ok(Other(None)) ELSE Err(errors[Len(errors)].err)

\* the first error, in order, among the responses of an Import:
\* `for response in responses { response.result?; }`, else the void value
RECURSIVE first_error(_)
first_error(responses) ==
    IF responses = <<>> THEN Ok(Other(None))
    ELSE IF ~Head(responses).ok THEN Err(Head(responses).err)
    ELSE first_error(Tail(responses))

\* an Export whose tasks log nothing
export_log_none(request, env) == <<>>

\* what the two tasks spawned by the Export arm log with tracing::error!:
\* the error of kvs.export, and the error of a write to the pipe once the
\* dispatcher has returned with the error of the file
export_log(request, env) ==
    IF request.method # "Export" \/ request.param.file = NoFile THEN <<>>
    ELSE IF ~env.kvs.ok THEN <<env.kvs.err>>
    ELSE IF ~env.io /\ Unwrap(env.kvs) # <<>> THEN <<Error("Io", "pipe")>>
    ELSE <<>>

LiveSql == "LIVE SELECT * FROM type::table($table)"
KillSql == "KILL type::string($id)"

router(request, session, vars, env) ==
    LET method == request.method
        param == request.param
        params == param.other
    IN  CASE method = "Use" ->
               IF Len(params) = 2 /\ params[1].t = "strand" /\ params[2].t = "strand"
               THEN Reply(Ok(Other(None)), [ns |-> params[1].s, db |-> params[2].s], vars, NoCall)
               ELSE Panic(session, vars)
          [] method \in {"Signin", "Signup", "Authenticate", "Invalidate"} ->
               Panic(session, vars)
          [] method = "Create" ->
               IF ~split_ok(params) THEN Panic(session, vars)
               ELSE process_and_take(TRUE, create_statement(params), session, vars, vars, env)
          [] method = "Update" ->
               IF ~split_ok(params) THEN Panic(session, vars)
               ELSE LET u == update_statement(params)
                    IN  process_and_take(u.one, u.statement, session, vars, vars, env)
          [] method = "Patch" ->
               IF ~split_ok(params) THEN Panic(session, vars)
               ELSE LET u == patch_statement(params)
                    IN  process_and_take(u.one, u.statement, session, vars, vars, env)
          [] method = "Merge" ->
               IF ~split_ok(params) THEN Panic(session, vars)
               ELSE LET u == merge_statement(params)
                    IN  process_and_take(u.one, u.statement, session, vars, vars, env)
          [] method = "Select" ->
               IF ~split_ok(params) THEN Panic(session, vars)
               ELSE LET u == select_statement(params)
                    IN  process_and_take(u.one, u.statement, session, vars, vars, env)
          [] method = "Delete" ->
               IF ~split_ok(params) THEN Panic(session, vars)
               ELSE process_and_take(TRUE, delete_statement(params), session, vars, vars, env)
          [] method = "Query" ->
               IF ~param.query.some THEN Panic(session, vars)
               ELSE LET merged == Append_map(vars, param.query.bindings)
                        call == KvsCall(param.query.stmts, session, merged)
                    IN  IF ~env.kvs.ok THEN Reply(Err(env.kvs.err), session, vars, call)
                        ELSE Reply(Ok(Query(Unwrap(process(Unwrap(env.kvs))))),
                                   session, vars, call)
          [] method = "Export" ->
               IF param.file = NoFile THEN Panic(session, vars)
               ELSE IF ~env.io THEN Reply(Err(Error("Io", param.file)), session, vars, NoCall)
               ELSE Reply(Ok(Other(None)), session, vars, NoCall)
          [] method = "Import" ->
               IF param.file = NoFile THEN Panic(session, vars)
               ELSE IF ~env.io THEN Reply(Err(Error("Io", param.file)), session, vars, NoCall)
               ELSE LET call == KvsCall(<<Sql(param.file)>>, session, vars)
                    IN  IF ~env.kvs.ok THEN Reply(Err(env.kvs.err), session, vars, call)
                        ELSE Reply(first_error(Unwrap(env.kvs)), session, vars, call)
          [] method = "Health" -> Reply(Ok(Other(None)), session, vars, NoCall)
          [] method = "Version" -> Reply(Ok(Other(Strand("surrealdb-version"))), session, vars, NoCall)
          [] method = "Set" ->
               IF Len(params) >= 2 /\ params[1].t = "strand"
               THEN Reply(Ok(Other(None)), session, Insert(vars, params[1].s, params[2]), NoCall)
               ELSE Panic(session, vars)
          [] method = "Unset" ->
               IF Len(params) < 1 THEN Panic(session, vars)
               ELSE IF params[1].t = "strand"
               THEN Reply(Ok(Other(None)), session, Remove(vars, params[1].s), NoCall)
               ELSE Reply(Ok(Other(None)), session, vars, NoCall)
          [] method = "Live" ->
               IF Len(params) # 1 THEN Panic(session, vars)
               ELSE process_and_take(TRUE, Sql(LiveSql), session, vars,
                                     Insert(EmptyMap, "table", params[1]), env)
          [] method = "Kill" ->
               IF Len(params) # 1 THEN Panic(session, vars)
               ELSE process_and_take(TRUE, Sql(KillSql), session, vars,
                                     Insert(EmptyMap, "id", params[1]), env)

(***************************************************************************)
(* The engine (surrealdb::Datastore) is an external collaborator: the      *)
(* model lets it return any result of the shape the executed statement     *)
(* can produce.                                                            *)
(***************************************************************************)
SeqsUpTo(S, n) == UNION {[1..k -> S] : k \in 0..n}

\* rows of a RETURN DIFF statement: one array of patch operations per
\* record; an element of such an array may itself be an array
DiffRows ==
    {Array([i \in 1..k |-> Object("op")]) : k \in 0..MaxOps}
        \cup {Array(<<Array(<<Object("op")>>)>>)}

\* select_record_ranges of tests/native-mem.rs and tests/native-http.rs:
\* the table holds the records created there, and a SELECT of a range of
\* it gives what the test asserts for that range
Records == <<"amos", "jane", "john", "zoey">>
RecordId(id) == Object(id)
select_record_ranges(range) ==
    LET beg == range.v[1]
        end == range.v[2]
        ids == CASE beg = Bound("Unbounded", "") /\ end = Bound("Unbounded", "") ->
                        <<"amos", "jane", "john", "zoey">>
                 [] beg = Bound("Unbounded", "") /\ end = Bound("Excluded", "john") ->
                        <<"amos", "jane">>
                 [] beg = Bound("Unbounded", "") /\ end = Bound("Included", "john") ->
                        <<"amos", "jane", "john">>
                 [] beg = Bound("Included", "jane") /\ end = Bound("Unbounded", "") ->
                        <<"jane", "john", "zoey">>
                 [] beg = Bound("Included", "jane") /\ end = Bound("Excluded", "john") ->
                        <<"jane">>
                 [] beg = Bound("Included", "jane") /\ end = Bound("Included", "john") ->
                        <<"jane", "john">>
                 [] beg = Bound("Excluded", "jane") /\ end = Bound("Included", "john") ->
                        <<"john">>
    IN  [i \in 1..Len(ids) |-> RecordId(ids[i])]

StatementRows(statement) ==
    LET rows == IF statement.output = "Diff" THEN DiffRows ELSE {Object("r1"), Object("r2")}
        single == Len(statement.what) = 1 /\ statement.what[1].t = "thing"
        ranged == Len(statement.what) = 1 /\ statement.what[1].t = "range"
    IN  CASE statement.stmt = "Delete" -> {<<>>}
          [] ranged -> {select_record_ranges(statement.what[1])}
          [] single -> SeqsUpTo(rows, 1)
          [] statement.stmt = "Create" -> [1..1 -> rows]
          [] OTHER -> SeqsUpTo(rows, MaxRows)

EngineError == Error("Db", "engine")
StatementError == Error("Db", "statement")

StatementResponses(statement) ==
    CASE statement.stmt = "Sql" /\ statement.text = LiveSql ->
             {Err(StatementError), Ok(Strand("live-query-id"))}
      [] statement.stmt = "Sql" /\ statement.text = KillSql ->
             {Err(StatementError), Ok(None)}
      [] statement.stmt = "Sql" ->
             {Err(Error("Db", statement.text)), Ok(None), Ok(Object("r1")),
              Ok(Array(<<>>)), Ok(Array(<<Object("r1")>>))}
      [] OTHER ->
             {Err(StatementError)} \cup {Ok(Array(rows)) : rows \in StatementRows(statement)}

\* the results Datastore::process can return for a query of these statements
KvsOutcomes(stmts) ==
    {Err(EngineError)} \cup
    {Ok(responses) : responses \in
        {r \in [1..Len(stmts) -> UNION {StatementResponses(stmts[i]) : i \in 1..Len(stmts)}] :
            \A i \in 1..Len(stmts) : r[i] \in StatementResponses(stmts[i])}}

NoEnv == [kvs |-> Ok(<<>>), io |-> TRUE]

\* what the collaborators can return while `request` is dispatched.
\* Datastore::export runs in a task the Export arm spawns: it fails, or it
\* sends its chunks to the task that writes them to the pipe; Ok holds the
\* chunks that reached that task after the dispatcher had returned and
\* dropped the reader of the pipe.  For Import, Datastore::execute returns
\* an error or one response per statement of the file.
Envs(request) ==
    LET method == request.method
        params == request.param.other
        with(stmts) == {[kvs |-> k, io |-> TRUE] : k \in KvsOutcomes(stmts)}
    IN  CASE method \in {"Create", "Update", "Patch", "Merge", "Select", "Delete"}
               /\ split_ok(params) ->
               with(<<CASE method = "Create" -> create_statement(params)
                        [] method = "Update" -> update_statement(params).statement
                        [] method = "Patch" -> patch_statement(params).statement
                        [] method = "Merge" -> merge_statement(params).statement
                        [] method = "Select" -> select_statement(params).statement
                        [] method = "Delete" -> delete_statement(params)>>)
          [] method = "Query" /\ request.param.query.some -> with(request.param.query.stmts)
          [] method = "Live" -> with(<<Sql(LiveSql)>>)
          [] method = "Kill" -> with(<<Sql(KillSql)>>)
          [] method = "Export" ->
               {[kvs |-> k, io |-> b] :
                    k \in {Err(EngineError), Ok(<<>>), Ok(<<Ok(Strand("chunk"))>>)},
                    b \in BOOLEAN}
          [] method = "Import" ->
               {[kvs |-> Ok(<<>>), io |-> FALSE]} \cup
               {[kvs |-> k, io |-> TRUE] :
                    k \in {Err(EngineError)} \cup
                          {Ok(responses) : responses \in
                              SeqsUpTo({Ok(None), Err(Error("Db", "e1")),
                                        Err(Error("Db", "e2"))}, 2)}}
          [] OTHER -> {NoEnv}

(***************************************************************************)
(* Method futures (src/method/*.rs).  A future holds its method, the       *)
(* Param its into_future builds, and for a Query the chained fragments     *)
(* (each the Result of parsing it) and the Result of the bind calls.       *)
(***************************************************************************)
\* `binds` records the bind calls of a Query chain (history only); `recv`
\* is the receive path of the future: execute ends in Connection::recv,
\* execute_query, which the Query futures call, in Connection::recv_query
Fut(method, param) ==
    [method |-> method, param |-> param, query |-> <<>>, bindings |-> Ok(EmptyMap),
     binds |-> <<>>, recv |-> "recv"]
QueryFut(fragments, bindings) ==
    [method |-> "Query", param |-> Param(<<>>), query |-> fragments, bindings |-> bindings,
     binds |-> <<>>, recv |-> "recv_query"]

UseDb(db) == Fut("Use", Param(<<None, Strand(db)>>))
UseNsDb(ns, db) == Fut("Use", Param(<<Strand(ns), Strand(db)>>))
SetFut(key, value) == Fut("Set", Param(<<Strand(key), value>>))
UnsetFut(key) == Fut("Unset", Param(<<Strand(key)>>))
LiveFut(table_name) == Fut("Live", Param(<<Table(table_name)>>))
KillFut(query_id) == Fut("Kill", Param(<<Uuid(query_id)>>))
ImportFut(file) == Fut("Import", ParamFile(file))
ExportFut(file) == Fut("Export", ParamFile(file))
AuthenticateFut(token) == Fut("Authenticate", Param(<<Strand(token)>>))
SignupFut(credentials) == Fut("Signup", Param(<<credentials>>))
SigninFut(credentials) == Fut("Signin", Param(<<credentials>>))
InvalidateFut == Fut("Invalidate", Param(<<>>))
HealthFut == Fut("Health", Param(<<>>))
VersionFut == Fut("Version", Param(<<>>))
\* Create, Select, Update (content / merge / patch) and Delete on `what`
ResourceFut(method, what) == Fut(method, Param(<<what>>))
ResourceDataFut(method, what, data) == Fut(method, Param(<<what, data>>))
\* db.select(table).range(bounds)
RangeFut(tb, beg, end) == ResourceFut("Select", Range(tb, beg, end))



connection_uninitialised == Error("ConnectionUninitialized", "connection uninitialized")

\* an extract that never reports an unset cell
extract_always(cell) == Ok("router")

\* ExtractRouter::extract on the client's OnceCell
extract(cell) == IF cell = "set" THEN Ok("router") ELSE Err(connection_uninitialised)

\* the error of a fragment that failed to parse
ParseError == Error("Parse", "fragment")
\* ErrorKind::InvalidBindings.with_context(&bindings)
InvalidBindings == Error("InvalidBindings", "value")

\* the BTreeMap of an Object's entries
map_of(object) ==
    [k \in {object.v[i].v[1].s : i \in 1..Len(object.v)} |->
        (object.v[CHOOSE i \in 1..Len(object.v) : object.v[i].v[1].s = k]).v[2]]

\* a shorthand that also unfolds a value that is itself a [string, x] pair
pair_to_object_deep(bindings) ==
    IF bindings.t = "array" /\ Len(bindings.v) = 2 /\ bindings.v[1].t = "strand"
    THEN IF bindings.v[2].t = "array" /\ Len(bindings.v[2].v) = 2
            /\ bindings.v[2].v[1].t = "strand"
         THEN ObjectOf(<<bindings.v[2]>>)
         ELSE ObjectOf(<<bindings>>)
    ELSE bindings

\* the shorthand of Query::bind: an array of exactly [Strand(key), value]
\* becomes the object {key: value}; any other value is left as it is
pair_to_object(bindings) ==
    IF bindings.t = "array" /\ Len(bindings.v) = 2 /\ bindings.v[1].t = "strand"
    THEN ObjectOf(<<bindings>>)
    ELSE bindings

\* a bind that starts from an empty map again after an invalid value
bind_reset(current, bindings) ==
    LET value == pair_to_object(bindings)
    IN  IF value.t = "object"
        THEN Ok(Append_map(IF current.ok THEN Unwrap(current) ELSE EmptyMap, map_of(value)))
        ELSE Err(InvalidBindings)

\* Query::bind (method/query/mod.rs) on self.bindings = `current`: nothing
\* once it is an error; else the object's entries are appended to the map,
\* and a value that is not an object makes it the invalid-bindings error
bind(current, bindings) ==
    IF ~current.ok THEN current
    ELSE LET value == pair_to_object(bindings)
         IN  IF value.t = "object"
             THEN Ok(Append_map(Unwrap(current), map_of(value)))
             ELSE Err(InvalidBindings)

\* Query::bind of method/query/query.rs: self.bindings.insert(key, value)
bind_key_value(current, key, value) == Insert(current, key, value)

\* a loop that leaves out the fragments that failed to parse
RECURSIVE extend_lenient(_, _)
extend_lenient(fragments, statements) ==
    IF fragments = <<>> THEN Ok(statements)
    ELSE IF ~Head(fragments).ok THEN extend_lenient(Tail(fragments), statements)
    ELSE extend_lenient(Tail(fragments), statements \o Unwrap(Head(fragments)))

\* `for query in self.query { statements.extend(query?) }`
RECURSIVE extend(_, _)
extend(fragments, statements) ==
    IF fragments = <<>> THEN Ok(statements)
    ELSE IF ~Head(fragments).ok THEN Err(Head(fragments).err)
    ELSE extend(Tail(fragments), statements \o Unwrap(Head(fragments)))

\* into_future up to the call of execute / execute_query: the request to
\* send, or the error the future resolves to without sending anything
into_future(fut, router_res) ==
    IF fut.method = "Query"
    THEN LET statements == extend(fut.query, <<>>)
         IN  IF ~statements.ok THEN Err(statements.err)
             ELSE IF ~fut.bindings.ok THEN Err(fut.bindings.err)
             ELSE IF ~router_res.ok THEN Err(router_res.err)
             ELSE Ok([method |-> "Query",
                      param |-> ParamQuery(Unwrap(statements), Unwrap(fut.bindings))])
    ELSE IF ~router_res.ok THEN Err(router_res.err)
         ELSE Ok([method |-> fut.method, param |-> fut.param])

(***************************************************************************)
(* State                                                                   *)
(***************************************************************************)
VARIABLES
    router_cell,   \* Surreal.router, a OnceCell: "unset" or "set"
    handles,       \* number of live Surreal handles (clones) of the client
    made,          \* history: number of handles made so far
    capacity,      \* capacity given to connect; 0 is unbounded
    backend,       \* the Connection the client was connected with: "Db", "Test"
    DB,            \* the process-wide `static DB: OnceCell<Datastore>`: "unset", or the
                   \* Datastore it holds ("set": the one this client or an earlier
                   \* one opened)
    peers,         \* the other embedded connects of the process, see NoPeer
    connect_res,   \* history: the connect attempt of this client and its result
    last_id,       \* Router.last_id, the AtomicI64 of next_id
    ids,           \* history: the identifiers next_id returned, in allocation order
    logs,          \* the errors the tasks of the dispatcher wrote with tracing::error!
    route_q,       \* the routes in the flume channel route_tx -> route_rx
    sender,        \* TRUE while Router.sender (route_tx) is alive
    loop,          \* position of the task spawned by router (native.rs)
    cur,           \* the route the loop took from the stream
    outcome,       \* the Result<DbResponse> the dispatcher returned for cur
    session,       \* the loop's Session: ns and db
    session_vars,  \* the loop's `vars` map
    kvs_call,      \* the arguments of the engine call of the dispatch in progress
    kvs_ret,       \* what the collaborators returned during that dispatch
    calls,         \* the method futures of the callers
    chans,         \* the one-shot reply channels, in order of creation
    enq,           \* history: callers in the order their routes were enqueued
    replied        \* history: callers in the order the loop sent their replies

Calls == 1..MaxCalls

NoRequest == [method |-> "", param |-> Param(<<>>)]
\* Option<Route>: Some(Route {request, response}) or the None sentinel.
\* `caller` records which call built the route (history only).
Route(request, response, caller) ==
    [some |-> TRUE, request |-> request, response |-> response, caller |-> caller]
NoRoute == [some |-> FALSE, request |-> NoRequest, response |-> 0, caller |-> 0]

\* a reply channel made by flume::bounded(1): its buffer, and whether its
\* sender and its receiver are alive.  A message records the caller whose
\* route it answers and that route's request; `got` of a call records the
\* message it received (history only).
NewChan == [buf |-> <<>>, tx |-> TRUE, rx |-> TRUE]
Message(res, route) == [res |-> res, caller |-> route.caller, request |-> route.request]

NoResult == Err(NoError)
\* `access` of a call: the accessor the caller applied to the QueryResponse
\* it received, and what the accessor gave
IdleCall == [pc |-> "idle", fut |-> Fut("", Param(<<>>)), request |-> NoRequest,
             rx |-> 0, result |-> NoResult, got |-> Message(NoResult, NoRoute),
             access |-> [done |-> FALSE, kind |-> "", n |-> 0, ior |-> RangeFull,
                         out |-> Accessed(FALSE, FALSE, NoResult)],
             task |-> FALSE, logged |-> ""]

\* no connect was attempted yet
NoConnect == [done |-> FALSE, reachable |-> TRUE, ok |-> FALSE]

\* the bound of a flume channel: none (flume::unbounded) or a number
Unbounded == [some |-> FALSE, n |-> 0]
Bounded(n) == [some |-> TRUE, n |-> n]

\* the route channel Connection::connect makes: Db (storage/native.rs)
\* takes capacity 0 for flume::unbounded(); the test double Client
\* (method/tests/protocol.rs) calls flume::bounded(capacity) for every
\* capacity
route_channel(conn, cap) ==
    IF conn = "Db" /\ cap = 0 THEN Unbounded ELSE Bounded(cap)

\* send_async on route_tx completes without waiting: the channel is
\* unbounded, or holds fewer entries than its bound, or (a channel of
\* bound 0) the loop is waiting in stream.next() to take the entry
HasRoom ==
    LET chan == route_channel(backend, capacity)
    IN  \/ ~chan.some
        \/ Len(route_q) < chan.n
        \/ chan.n = 0 /\ loop = "recv" /\ route_q = <<>>
\* the loop still holds route_rx
LoopAlive == loop \in {"recv", "serve", "reply"}

\* dropping routes drops their reply senders
DropSenders(ch, routes) ==
    [k \in 1..Len(ch) |->
        IF \E i \in 1..Len(routes) : routes[i].some /\ routes[i].response = k
        THEN [ch[k] EXCEPT !.tx = FALSE] ELSE ch[k]]

\* a Drop that sends the sentinel whenever any handle is dropped
last_handle_any(n) == TRUE

\* Arc<Router>: the Router is dropped with the last of the `n` live handles
last_handle(n) == n = 1

\* a Drop that puts the sentinel in front of the queued routes
send_none_front(q) == <<[some |-> FALSE, request |-> [method |-> "", param |-> Param(<<>>)],
                         response |-> 0, caller |-> 0]>> \o q

\* `self.sender.send(None)` of Drop for Router: the sentinel goes behind the
\* routes already in the queue
send_none(q) == Append(q, [some |-> FALSE, request |-> [method |-> "", param |-> Param(<<>>)],
                           response |-> 0, caller |-> 0])

\* a send that reuses the first reply channel instead of making one
bounded_1_shared(ch) == 1

\* the channel `flume::bounded(1)` returns in send: a new one
bounded_1(ch) == Len(ch) + 1

\* a stream that yields the newest entry first
stream_next_lifo(q) == Len(q)

\* the entry `stream.next()` takes from the queue: the oldest
stream_next(q) == 1

\* a stream that leaves the entry it yields in the queue
RemoveAt_keep(q, i) == q

\* the queue once stream.next() has taken entry i out of it

RemoveAt(q, i) == [j \in 1..(Len(q) - 1) |-> IF j < i THEN q[j] ELSE q[j + 1]]

(***************************************************************************)
(* The other embedded connects of the process.  Each is made by            *)
(* Connection::connect for Db and has a route queue, a loop task and a     *)
(* Session of its own; all of them share the static DB.                    *)
(*   pc        where the connect is: "idle" (not called), "spawned" (the   *)
(*             task of router is spawned), "opening" (the task found DB    *)
(*             empty and opens the address), "failed" (it could not, and   *)
(*             connect returned the error), "ready" (the task sent Ok on   *)
(*             conn_tx and runs its loop), "connected" (connect returned   *)
(*             the client), "lost" (the static client's router was         *)
(*             already set: the new Router was dropped and connect         *)
(*             returned Ok(()))                                            *)
(*   kind      "static": a connect on the static client of this model;     *)
(*             "separate": the connect of another client                   *)
(*   kvs       the Datastore the loop task holds, `opened` whether the     *)
(*             task opened one of its own                                  *)
(*   q, loop   its route queue and the position of its loop task           *)
(*   session, vars   the loop's Session and map                            *)
(*   handles   the handles of its client; call, via: the arguments of the  *)
(*             engine call of the last request its loop dispatched, and    *)
(*             the handle that request came through (history)              *)
(***************************************************************************)
Peers == {1, 2}

NoPeer ==
    [pc |-> "idle", kind |-> "", reachable |-> TRUE, kvs |-> "", opened |-> FALSE,
     q |-> <<>>, loop |-> "unspawned", session |-> [ns |-> NoneStr, db |-> NoneStr],
     vars |-> EmptyMap, handles |-> 0, call |-> NoCall, via |-> 0]

\* the Datastore that Datastore::new gives the connect p
Datastore(p) == "ds" \o ToString(p)

(***************************************************************************)
(* Initial state: a client made by Surreal::new(), not yet connected.      *)
(***************************************************************************)
Init ==
    /\ router_cell = "unset"
    /\ handles = 1
    /\ made = 1
    /\ capacity = 0
    /\ backend = ""
    /\ DB = "unset"
    /\ peers = [p \in Peers |-> NoPeer]
    /\ connect_res = NoConnect
    /\ last_id = 0
    /\ ids = <<>>
    /\ logs = <<>>
    /\ route_q = <<>>
    /\ sender = FALSE
    /\ loop = "unspawned"
    /\ cur = NoRoute
    /\ outcome = NoResult
    /\ session = [ns |-> NoneStr, db |-> NoneStr]
    /\ session_vars = EmptyMap
    /\ kvs_call = NoCall
    /\ kvs_ret = NoEnv
    /\ calls = [c \in Calls |-> IdleCall]
    /\ chans = <<>>
    /\ enq = <<>>
    /\ replied = <<>>

(***************************************************************************)
(* connect: Connection::connect for Db creates the route channel, spawns   *)
(* the loop (which creates the Session and the vars map) and returns the   *)
(* client whose router is set.                                             *)
(***************************************************************************)
\* `reachable` tells whether Datastore::new(path) can open the address.
\* The task spawned by router takes the Datastore of the static DB if an
\* earlier connect of the process has set it, and else opens the address
\* and sets DB; when that fails it sends the error on conn_tx and returns,
\* and connect returns the error.  The mock server of the test double
\* opens nothing.
established(conn, reachable) == conn = "Test" \/ DB # "unset" \/ reachable

\* a cell that takes every value it is given
get_or_init_own(cell, value) == value

\* OnceCell::get_or_init: the cell keeps the value it holds, and takes
\* `value` only when it holds none
get_or_init(cell, value) == IF cell = "unset" THEN value ELSE cell

Connection_connect(conn, cap, reachable) ==
    /\ router_cell = "unset"
    /\ connect_res' = [done |-> TRUE, reachable |-> reachable,
                       ok |-> established(conn, reachable)]
    /\ DB' = IF conn = "Db" /\ established(conn, reachable) THEN get_or_init(DB, "set")
             ELSE DB
    /\ IF established(conn, reachable)
       THEN /\ router_cell' = "set"
            /\ capacity' = cap
            /\ backend' = conn
            /\ sender' = TRUE
            /\ loop' = "recv"
            /\ session' = [ns |-> NoneStr, db |-> NoneStr]
            /\ session_vars' = EmptyMap
            /\ last_id' = 0
       ELSE /\ loop' = "exited"
            /\ UNCHANGED <<router_cell, capacity, backend, sender, session, session_vars,
                           last_id>>
    /\ UNCHANGED <<route_q, cur, outcome, kvs_call, kvs_ret, chans, enq, replied, ids, logs,
                   peers>>

\* IntoFuture for Connect<Client, ()>: the connect of a static client made
\* by Surreal::new(); it sets the client's router and returns Ok(())
Static_connect(conn, cap, reachable) ==
    /\ handles >= 1
    /\ Connection_connect(conn, cap, reachable)
    /\ UNCHANGED <<handles, made, calls>>

Connect(cap) == Static_connect("Db", cap, TRUE)

\* IntoFuture for Connect<Client, Surreal<Client>>: Surreal::connect makes
\* the client, calls check_server_version, which clones the client into a
\* spawned task (the caller c) that will ask for the version, and returns
\* Ok(client) at once
Surreal_connect(conn, cap, reachable, c) ==
    /\ handles = 0
    /\ calls[c].pc = "idle"
    /\ Connection_connect(conn, cap, reachable)
    /\ IF established(conn, reachable)
       THEN /\ handles' = 2
            /\ made' = 2
            /\ calls' = [calls EXCEPT ![c] = [@ EXCEPT !.pc = "spawned", !.fut = VersionFut,
                                                        !.task = TRUE]]
       ELSE UNCHANGED <<handles, made, calls>>

(***************************************************************************)
(* A caller awaits a method future: into_future, then Connection::send.    *)
(* send_async waits while the route queue is full and fails once the loop  *)
(* has dropped route_rx.                                                   *)
(***************************************************************************)
Submit(c, fut) ==
    /\ handles >= 1
    /\ LET req == into_future(fut, extract(router_cell))
       IN  IF ~req.ok
           THEN /\ calls' = [calls EXCEPT ![c] = [@ EXCEPT !.pc = "done", !.fut = fut,
                                                    !.result = Err(req.err)]]
                /\ UNCHANGED <<route_q, chans, enq>>
           ELSE IF ~LoopAlive
           THEN /\ calls' = [calls EXCEPT ![c] = [@ EXCEPT !.pc = "done", !.fut = fut,
                                    !.result = Err(Error("Send", "disconnected"))]]
                /\ UNCHANGED <<route_q, chans, enq>>
           ELSE /\ HasRoom
                /\ LET k == bounded_1(chans)
                   IN  /\ chans' = IF k > Len(chans) THEN Append(chans, NewChan) ELSE chans
                       /\ route_q' = Append(route_q, Route(Unwrap(req), k, c))
                       /\ calls' = [calls EXCEPT ![c] = [@ EXCEPT !.pc = "sent", !.fut = fut,
                                                !.request = Unwrap(req), !.rx = k]]
                /\ enq' = Append(enq, c)
    /\ UNCHANGED <<router_cell, handles, made, capacity, backend, DB, peers, connect_res, logs, last_id, ids, sender, loop, cur, outcome, session,
                   session_vars, kvs_call, kvs_ret, replied>>

\* a method future is made and awaited at once
Call(c, fut) ==
    /\ calls[c].pc = "idle"
    /\ Submit(c, fut)

\* the spawned task of check_server_version runs conn.version()
version_call(c) ==
    /\ calls[c].pc = "spawned"
    /\ Submit(c, VersionFut)

\* the task matches the outcome of the lookup: a version in the supported
\* range and build ("none" is logged), out of the range ("warn_range"),
\* of an older build ("warn_build"), or an error ("trace"); then it ends
\* and its clone of the client is dropped
version_logged(c, log) ==
    /\ calls[c].task
    /\ calls[c].pc = "done"
    /\ calls[c].logged = ""
    /\ IF calls[c].result.ok THEN log \in {"none", "warn_range", "warn_build"}
       ELSE log = "trace"
    /\ handles > 1
    /\ handles' = handles - 1
    /\ calls' = [calls EXCEPT ![c] = [@ EXCEPT !.logged = log]]
    /\ UNCHANGED <<router_cell, made, capacity, backend, DB, peers, connect_res, logs, last_id, ids, route_q, sender, loop, cur, outcome,
                   session, session_vars, kvs_call, kvs_ret, chans, enq, replied>>

(***************************************************************************)
(* A Query chain: db.query(f).query(g).bind(b)... builds the future in     *)
(* calls[c].fut step by step; awaiting it submits it.                      *)
(***************************************************************************)
Building(c, fut) ==
    /\ calls' = [calls EXCEPT ![c] = [@ EXCEPT !.pc = "building", !.fut = fut]]
    /\ UNCHANGED <<router_cell, handles, made, capacity, backend, DB, peers, connect_res, logs, last_id, ids, route_q, sender, loop, cur, outcome,
                   session, session_vars, kvs_call, kvs_ret, chans, enq, replied>>

\* Surreal::query: a chain of one fragment and no bindings
Query_new(c, fragment) ==
    /\ calls[c].pc = "idle"
    /\ handles >= 1
    /\ Building(c, QueryFut(<<fragment>>, Ok(EmptyMap)))

\* Query::query: self.query.push(query.try_into_query())
Query_query(c, fragment) ==
    /\ calls[c].pc = "building"
    /\ Len(calls[c].fut.query) < MaxChain
    /\ Building(c, [calls[c].fut EXCEPT !.query = Append(@, fragment)])

\* Query::bind of method/query/mod.rs
Query_bind(c, bindings) ==
    /\ calls[c].pc = "building"
    /\ Len(calls[c].fut.binds) < MaxBinds
    /\ Building(c, [calls[c].fut EXCEPT
                        !.bindings = bind(@, bindings),
                        !.binds = Append(@, [kind |-> "bind", key |-> "",
                                             value |-> bindings])])

\* Query::bind of method/query/query.rs, whose bindings are always a map
Query_bind_key_value(c, key, value) ==
    /\ calls[c].pc = "building"
    /\ Len(calls[c].fut.binds) < MaxBinds
    /\ calls[c].fut.bindings.ok
    /\ Building(c, [calls[c].fut EXCEPT
                        !.bindings = Ok(bind_key_value(Unwrap(@), key, value)),
                        !.binds = Append(@, [kind |-> "key_value", key |-> key,
                                             value |-> value])])

\* the chain is awaited: Query::into_future
Query_await(c) ==
    /\ calls[c].pc = "building"
    /\ Submit(c, calls[c].fut)

\* Connection::recv / recv_query: the reply, or the error of a channel
\* whose sender was dropped; a reply of the wrong variant is unreachable!()
Recv(c) ==
    /\ calls[c].pc = "sent"
    /\ LET k == calls[c].rx
           ch == chans[k]
       IN  /\ ch.buf # <<>> \/ ~ch.tx
           /\ chans' = [chans EXCEPT ![k] = [@ EXCEPT !.buf = <<>>, !.rx = FALSE]]
           /\ IF ch.buf = <<>>
              THEN calls' = [calls EXCEPT ![c] = [@ EXCEPT !.pc = "done",
                                 !.result = Err(Error("Recv", "disconnected"))]]
              ELSE LET res == Head(ch.buf).res
                       want == IF calls[c].fut.recv = "recv_query" THEN "Query" ELSE "Other"
                   IN  calls' = [calls EXCEPT ![c] = [@ EXCEPT
                           !.pc = IF res.ok /\ Unwrap(res).kind # want
                                  THEN "panicked" ELSE "done",
                           !.result = res,
                           !.got = Head(ch.buf)]]
    /\ UNCHANGED <<router_cell, handles, made, capacity, backend, DB, peers, connect_res, logs, last_id, ids, route_q, sender, loop, cur, outcome,
                   session, session_vars, kvs_call, kvs_ret, enq, replied>>

\* the caller drops its future, and with it the receiver, before the reply
Cancel(c) ==
    /\ calls[c].pc = "sent"
    /\ calls' = [calls EXCEPT ![c] = [@ EXCEPT !.pc = "cancelled"]]
    /\ chans' = [chans EXCEPT ![calls[c].rx] = [@ EXCEPT !.buf = <<>>, !.rx = FALSE]]
    /\ UNCHANGED <<router_cell, handles, made, capacity, backend, DB, peers, connect_res, logs, last_id, ids, route_q, sender, loop, cur, outcome,
                   session, session_vars, kvs_call, kvs_ret, enq, replied>>

\* the caller reads the QueryResponse it received through query_result, get
\* or the index operator
Access(c, kind, n, ior) ==
    /\ calls[c].pc = "done"
    /\ calls[c].result.ok
    /\ Unwrap(calls[c].result).kind = "Query"
    /\ ~calls[c].access.done
    /\ LET response == Unwrap(calls[c].result).results
           found == query_result(response, n)
           out == CASE kind = "query_result" ->
                           Accessed(FALSE, found.some, AsArray(found.result))
                    [] kind = "get" ->
                           Accessed(FALSE, TRUE, QueryResponse_get(response, n, ior))
                    [] kind = "index" -> index(response, n)
       IN  calls' = [calls EXCEPT ![c] = [@ EXCEPT
                        !.pc = IF out.panic THEN "panicked" ELSE "done",
                        !.access = [done |-> TRUE, kind |-> kind, n |-> n, ior |-> ior,
                                    out |-> out]]]
    /\ UNCHANGED <<router_cell, handles, made, capacity, backend, DB, peers, connect_res, logs, last_id, ids, route_q, sender, loop, cur, outcome,
                   session, session_vars, kvs_call, kvs_ret, chans, enq, replied>>

\* a fetch_add that returns the value and leaves it as it is
fetch_add_stale(value, n) == [ret |-> value, new |-> value]

\* AtomicI64::fetch_add(n, SeqCst): one atomic step that returns the
\* previous value and adds n to the stored one
fetch_add(value, n) == [ret |-> value, new |-> value + n]

\* Router::next_id, called by caller c through any handle of the client
next_id(c) ==
    /\ router_cell = "set"
    /\ handles >= 1
    /\ Len(ids) < MaxIds
    /\ last_id' = fetch_add(last_id, 1).new
    /\ ids' = Append(ids, [caller |-> c, id |-> fetch_add(last_id, 1).ret])
    /\ UNCHANGED <<router_cell, handles, made, capacity, backend, DB, peers, connect_res, logs, route_q,
                   sender, loop, cur, outcome, session, session_vars, kvs_call, kvs_ret,
                   calls, chans, enq, replied>>

\* Clone for Surreal: one more handle on the same Arc<Router>
CloneHandle ==
    /\ router_cell = "set"
    /\ handles >= 1
    /\ made < MaxHandles
    /\ handles' = handles + 1
    /\ made' = made + 1
    /\ UNCHANGED <<router_cell, capacity, backend, DB, peers, connect_res, logs, last_id, ids, route_q, sender, loop, cur, outcome, session,
                   session_vars, kvs_call, kvs_ret, calls, chans, enq, replied>>

(***************************************************************************)
(* A handle is dropped.  A pending future borrows its handle, so the last  *)
(* handle outlives every pending call.  Dropping the last handle of a      *)
(* connected client drops the Router: Drop for Router sends None with the  *)
(* blocking `send` (which waits for room, and fails when the loop is       *)
(* gone), then the sender itself is dropped.  Once both ends are gone the  *)
(* channel and the routes still in it are freed.                           *)
(***************************************************************************)
DropHandle ==
    /\ handles >= 1
    /\ handles > 1 \/ \A c \in Calls : calls[c].pc # "sent"
    /\ handles' = handles - 1
    /\ IF last_handle(handles) /\ router_cell = "set"
       THEN /\ sender' = FALSE
            /\ IF LoopAlive
               THEN /\ HasRoom
                    /\ route_q' = send_none(route_q)
                    /\ UNCHANGED chans
               ELSE /\ route_q' = <<>>
                    /\ chans' = DropSenders(chans, route_q)
       ELSE UNCHANGED <<sender, route_q, chans>>
    /\ UNCHANGED <<router_cell, made, capacity, backend, DB, peers, connect_res, logs, last_id, ids, loop, cur, outcome, session, session_vars,
                   kvs_call, kvs_ret, calls, enq, replied>>

(***************************************************************************)
(* The loop of router in src/storage/native.rs:                            *)
(*   while let Some(Some(route)) = stream.next().await { ... }             *)
(***************************************************************************)
\* stream.next(): the next entry; a None entry, or a closed empty channel,
\* ends the loop and drops route_rx
router_next ==
    /\ loop = "recv"
    /\ IF route_q # <<>>
       THEN LET i == stream_next(route_q)
                rest == RemoveAt(route_q, i)
            IN  IF route_q[i].some
                THEN /\ cur' = route_q[i]
                     /\ loop' = "serve"
                     /\ route_q' = rest
                     /\ UNCHANGED chans
                ELSE /\ loop' = "exited"
                     /\ cur' = NoRoute
                     /\ route_q' = IF sender THEN rest ELSE <<>>
                     /\ chans' = IF sender THEN chans ELSE DropSenders(chans, rest)
       ELSE /\ ~sender
            /\ loop' = "exited"
            /\ UNCHANGED <<cur, route_q, chans>>
    /\ UNCHANGED <<router_cell, handles, made, capacity, backend, DB, peers, connect_res, logs, last_id, ids, sender, outcome, session,
                   session_vars, kvs_call, kvs_ret, calls, enq, replied>>

\* super::router(route.request, kvs, &mut session, &mut vars, strict).await;
\* a panic ends the task, dropping the route and route_rx
router_serve(env) ==
    /\ loop = "serve"
    /\ LET out == router(cur.request, session, session_vars, env)
       IN  IF out.tag = "reply"
           THEN /\ outcome' = out.res
                /\ session' = out.session
                /\ session_vars' = out.vars
                /\ kvs_call' = out.call
                /\ kvs_ret' = env
                /\ logs' = logs \o export_log(cur.request, env)
                /\ loop' = "reply"
                /\ UNCHANGED <<cur, route_q, chans>>
           ELSE /\ loop' = "panicked"
                /\ cur' = NoRoute
                /\ route_q' = IF sender THEN route_q ELSE <<>>
                /\ chans' = DropSenders(chans, IF sender THEN <<cur>> ELSE <<cur>> \o route_q)
                /\ UNCHANGED <<outcome, session, session_vars, kvs_call, kvs_ret, logs>>
    /\ UNCHANGED <<router_cell, handles, made, capacity, backend, DB, peers, connect_res, last_id, ids,
                   sender, calls, enq, replied>>

\* a reply send that waits until the caller's receiver is there to take it
router_reply_wait ==
    /\ loop = "reply"
    /\ chans[cur.response].rx
    /\ chans' = [chans EXCEPT ![cur.response] = [@ EXCEPT !.buf = <<Message(outcome, cur)>>,
                                                          !.tx = FALSE]]
    /\ replied' = Append(replied, cur.caller)
    /\ cur' = NoRoute
    /\ outcome' = NoResult
    /\ kvs_call' = NoCall
    /\ kvs_ret' = NoEnv
    /\ loop' = "recv"
    /\ UNCHANGED <<router_cell, handles, made, capacity, backend, DB, peers, connect_res, logs,
                   last_id, ids, route_q, sender, session, session_vars, calls, enq>>

\* route.response.into_send_async(..).await, its error ignored
router_reply ==
    /\ loop = "reply"
    /\ chans' = [chans EXCEPT ![cur.response] =
                    IF @.rx THEN [@ EXCEPT !.buf = <<Message(outcome, cur)>>, !.tx = FALSE]
                    ELSE [@ EXCEPT !.tx = FALSE]]
    /\ replied' = Append(replied, cur.caller)
    /\ cur' = NoRoute
    /\ outcome' = NoResult
    /\ kvs_call' = NoCall
    /\ kvs_ret' = NoEnv
    /\ loop' = "recv"
    /\ UNCHANGED <<router_cell, handles, made, capacity, backend, DB, peers, connect_res, logs, last_id, ids, route_q, sender, session,
                   session_vars, calls, enq>>

(***************************************************************************)
(* The other connects of the process, step by step.                        *)
(***************************************************************************)
\* Connection::connect for Db up to `router(address, conn_tx, route_rx)`:
\* the route channel is made and the task is spawned; then connect waits
\* for conn_rx.  `reachable` tells whether Datastore::new can open the
\* address.
peer_connect(p, kind, reachable) ==
    /\ peers[p].pc = "idle"
    /\ kind = "static" => handles >= 1
    /\ peers' = [peers EXCEPT ![p] = [@ EXCEPT !.pc = "spawned", !.kind = kind,
                                                !.reachable = reachable]]
    /\ UNCHANGED <<router_cell, handles, made, capacity, backend, DB, connect_res, logs,
                   last_id, ids, route_q, sender, loop, cur, outcome, session, session_vars,
                   kvs_call, kvs_ret, calls, chans, enq, replied>>

\* the task spawned by router (native.rs 118-142): `DB.get()`, and when
\* the cell is empty `Datastore::new(path).await` followed by
\* `DB.get_or_init(|| kvs)` or by the error on conn_tx; then Ok on conn_tx,
\* a new Session and map, and the loop
peer_router(p) ==
    LET running(kvs, opened) ==
            [peers EXCEPT ![p] = [@ EXCEPT !.pc = "ready", !.kvs = kvs, !.opened = opened,
                                           !.loop = "recv",
                                           !.session = [ns |-> NoneStr, db |-> NoneStr],
                                           !.vars = EmptyMap]]
    IN  /\ \/ /\ peers[p].pc = "spawned"
              /\ peers' = IF DB # "unset" THEN running(DB, FALSE)
                          ELSE [peers EXCEPT ![p] = [@ EXCEPT !.pc = "opening"]]
              /\ UNCHANGED DB
           \/ /\ peers[p].pc = "opening"
              /\ IF peers[p].reachable
                 THEN /\ DB' = get_or_init(DB, Datastore(p))
                      /\ peers' = running(get_or_init(DB, Datastore(p)), TRUE)
                 ELSE /\ peers' = [peers EXCEPT ![p] = [@ EXCEPT !.pc = "failed",
                                                                  !.loop = "exited"]]
                      /\ UNCHANGED DB
        /\ UNCHANGED <<router_cell, handles, made, capacity, backend, connect_res, logs,
                       last_id, ids, route_q, sender, loop, cur, outcome, session,
                       session_vars, kvs_call, kvs_ret, calls, chans, enq, replied>>

\* a connect that keeps the Router which the set cell gave back
peer_connected_keep(p) ==
    /\ peers[p].pc = "ready"
    /\ IF peers[p].kind = "static"
       THEN /\ router_cell = "set"
            /\ peers' = [peers EXCEPT ![p] = [@ EXCEPT !.pc = "lost"]]
       ELSE peers' = [peers EXCEPT ![p] = [@ EXCEPT !.pc = "connected", !.handles = 1]]
    /\ UNCHANGED <<router_cell, handles, made, capacity, backend, DB, connect_res, logs,
                   last_id, ids, route_q, sender, loop, cur, outcome, session, session_vars,
                   kvs_call, kvs_ret, calls, chans, enq, replied>>

\* connect returns: conn_rx gave Ok and Connection::connect built the
\* client with its Router.  The connect of a separate client returns it.
\* IntoFuture for Connect<Client, ()> hands the Router to `router.set`:
\* the cell of the static client is already set (the connect that set it
\* is Static_connect), so set gives the Router back in `_res`, which is
\* dropped: Drop for Router sends None into the new, empty route queue,
\* and the connect returns Ok(()).
peer_connected(p) ==
    /\ peers[p].pc = "ready"
    /\ IF peers[p].kind = "static"
       THEN /\ router_cell = "set"
            /\ peers' = [peers EXCEPT ![p] = [@ EXCEPT !.pc = "lost",
                                                       !.q = send_none(@)]]
       ELSE peers' = [peers EXCEPT ![p] = [@ EXCEPT !.pc = "connected", !.handles = 1]]
    /\ UNCHANGED <<router_cell, handles, made, capacity, backend, DB, connect_res, logs,
                   last_id, ids, route_q, sender, loop, cur, outcome, session, session_vars,
                   kvs_call, kvs_ret, calls, chans, enq, replied>>

\* Clone for Surreal on the client of connect p
peer_clone(p) ==
    /\ peers[p].pc = "connected"
    /\ peers[p].handles < MaxHandles
    /\ peers' = [peers EXCEPT ![p] = [@ EXCEPT !.handles = @ + 1]]
    /\ UNCHANGED <<router_cell, handles, made, capacity, backend, DB, connect_res, logs,
                   last_id, ids, route_q, sender, loop, cur, outcome, session, session_vars,
                   kvs_call, kvs_ret, calls, chans, enq, replied>>

\* a dispatch that runs every request with the Session and map of the
\* first connect
peer_execute_shared(p, h, fut, env) ==
    /\ peers[p].pc = "connected"
    /\ h \in 1..peers[p].handles
    /\ peers[p].loop = "recv"
    /\ into_future(fut, Ok("router")).ok
    /\ LET out == router(Unwrap(into_future(fut, Ok("router"))),
                         peers[1].session, peers[1].vars, env)
       IN  peers' = IF out.tag = "reply"
                    THEN [peers EXCEPT ![1] = [@ EXCEPT !.session = out.session,
                                                        !.vars = out.vars],
                                       ![p] = [@ EXCEPT !.call = out.call, !.via = h]]
                    ELSE [peers EXCEPT ![p] = [@ EXCEPT !.loop = "panicked"]]
    /\ UNCHANGED <<router_cell, handles, made, capacity, backend, DB, connect_res, logs,
                   last_id, ids, route_q, sender, loop, cur, outcome, session, session_vars,
                   kvs_call, kvs_ret, calls, chans, enq, replied>>

\* a call through handle h of the client of connect p, from its send to
\* its reply: Connection::send enqueues the route of the future's request,
\* and the loop of that connect takes it and runs router on it with its
\* own Session and map (native.rs 144-153); an unreachable!() ends the task
peer_execute(p, h, fut, env) ==
    /\ peers[p].pc = "connected"
    /\ h \in 1..peers[p].handles
    /\ peers[p].loop = "recv"
    /\ into_future(fut, Ok("router")).ok
    /\ LET out == router(Unwrap(into_future(fut, Ok("router"))),
                         peers[p].session, peers[p].vars, env)
       IN  peers' = IF out.tag = "reply"
                    THEN [peers EXCEPT ![p] = [@ EXCEPT !.session = out.session,
                                                        !.vars = out.vars,
                                                        !.call = out.call, !.via = h]]
                    ELSE [peers EXCEPT ![p] = [@ EXCEPT !.loop = "panicked"]]
    /\ UNCHANGED <<router_cell, handles, made, capacity, backend, DB, connect_res, logs,
                   last_id, ids, route_q, sender, loop, cur, outcome, session, session_vars,
                   kvs_call, kvs_ret, calls, chans, enq, replied>>

\* the loop of connect p at stream.next(): the None entry ends it
peer_next(p) ==
    /\ peers[p].loop = "recv"
    /\ peers[p].q # <<>>
    /\ ~peers[p].q[stream_next(peers[p].q)].some
    /\ peers' = [peers EXCEPT ![p] = [@ EXCEPT !.loop = "exited",
                                               !.q = RemoveAt(@, stream_next(@))]]
    /\ UNCHANGED <<router_cell, handles, made, capacity, backend, DB, connect_res, logs,
                   last_id, ids, route_q, sender, loop, cur, outcome, session, session_vars,
                   kvs_call, kvs_ret, calls, chans, enq, replied>>

(***************************************************************************)
(* The specification of one connection shared by concurrent callers.       *)
(***************************************************************************)
Q1 == <<Sql("q1")>>
Q2 == <<Sql("q2")>>

Capacities == {0, 1}

Next ==
    \/ \E cap \in Capacities : Connect(cap)
    \/ \E c \in Calls,
          fut \in {HealthFut, AuthenticateFut("token"),
                   ResourceFut("Delete", Thing("user:john"))} : Call(c, fut)
    \/ \E c \in Calls : Recv(c)
    \/ \E c \in Calls : Cancel(c)
    \/ CloneHandle
    \/ DropHandle
    \/ router_next
    \/ \E env \in Envs(cur.request) : router_serve(env)
    \/ router_reply

vars == <<router_cell, handles, made, capacity, backend, DB, peers, connect_res, logs, last_id, ids, route_q, sender, loop, cur, outcome, session,
          session_vars, kvs_call, kvs_ret, calls, chans, enq, replied>>

Spec == Init /\ [][Next]_vars

\* the loop task is scheduled fairly and a caller polls its receiver
FairSpec ==
    /\ Spec
    /\ WF_vars(router_next)
    /\ WF_vars(\E env \in Envs(cur.request) : router_serve(env))
    /\ WF_vars(router_reply)
    /\ \A c \in Calls : WF_vars(Recv(c))

(***************************************************************************)
(* The specification of the dispatcher alone: one call, drawn from every   *)
(* kind of request, on a client that is not connected or on a connection   *)
(* whose Session and vars earlier Use and Set calls have left in any of    *)
(* the states below.                                                       *)
(***************************************************************************)
VarMaps ==
    { EmptyMap,
      Insert(EmptyMap, "k1", Strand("old")),
      Insert(Insert(EmptyMap, "k1", Strand("old")), "k2", Strand("old2")),
      Insert(Insert(EmptyMap, "table", Table("secret")), "id", Uuid("other-id")) }

John == Thing("user:john")
Users == Table("user")
UserSet == Array(<<Thing("user:jane"), Thing("user:john")>>)
Content == Object("content")
\* the ranges select_record_ranges asks for: .., .."john", ..="john",
\* "jane".., "jane".."john", "jane"..="john" and (Excluded, Included)
AllFuts ==
    { HealthFut, VersionFut,
      UseNsDb("ns1", "db1"), UseDb("db1"),
      AuthenticateFut("token"), SignupFut(Content), SigninFut(Content), InvalidateFut,
      SetFut("k1", Strand("new")), SetFut("k3", Strand("new")),
      UnsetFut("k1"), UnsetFut("k3"),
      LiveFut("user"), LiveFut("person"), KillFut("live-query-id"), KillFut("id2"),
      ImportFut("dump.sql"), ExportFut("dump.sql"),
      QueryFut(<<Ok(Q1)>>, Ok(EmptyMap)),
      QueryFut(<<Ok(Q1), Ok(Q2)>>, Ok(EmptyMap)),
      QueryFut(<<Ok(Q1)>>, Ok(Insert(EmptyMap, "k1", Strand("new")))),
      QueryFut(<<Ok(Q1)>>, Ok(Insert(EmptyMap, "k3", Strand("new")))),
      QueryFut(<<Ok(Q1), Err(ParseError)>>, Ok(EmptyMap)),
      QueryFut(<<Ok(Q1)>>, Err(InvalidBindings)) }
    \cup {ResourceFut(m, w) : m \in {"Select", "Update", "Delete"}, w \in {John, Users, UserSet}}
    \cup {ResourceFut("Create", w) : w \in {John, Users}}
    \cup {RangeFut("user", r[1], r[2]) : r \in
          { <<Bound("Unbounded", ""), Bound("Unbounded", "")>>,
            <<Bound("Unbounded", ""), Bound("Excluded", "john")>>,
            <<Bound("Unbounded", ""), Bound("Included", "john")>>,
            <<Bound("Included", "jane"), Bound("Unbounded", "")>>,
            <<Bound("Included", "jane"), Bound("Excluded", "john")>>,
            <<Bound("Included", "jane"), Bound("Included", "john")>>,
            <<Bound("Excluded", "jane"), Bound("Included", "john")>> } }
    \cup {ResourceDataFut(m, w, Content) : m \in {"Create", "Update"}, w \in {John, Users}}
    \cup {ResourceDataFut(m, w, Content) : m \in {"Merge", "Patch"}, w \in {John, Users, UserSet}}

DispatchInit ==
    /\ handles = 1
    /\ peers = [p \in Peers |-> NoPeer]
    /\ made = 1
    /\ capacity = 0
    /\ last_id = 0
    /\ ids = <<>>
    /\ logs = <<>>
    /\ route_q = <<>>
    /\ cur = NoRoute
    /\ outcome = NoResult
    /\ kvs_call = NoCall
    /\ kvs_ret = NoEnv
    /\ calls = [c \in Calls |-> IdleCall]
    /\ chans = <<>>
    /\ enq = <<>>
    /\ replied = <<>>
    /\ \/ /\ router_cell = "unset"
          /\ backend = ""
          /\ DB = "unset"
          /\ connect_res = NoConnect
          /\ sender = FALSE
          /\ loop = "unspawned"
          /\ session = [ns |-> NoneStr, db |-> NoneStr]
          /\ session_vars = EmptyMap
       \/ /\ router_cell = "set"
          /\ backend = "Db"
          /\ DB = "set"
          /\ connect_res = [done |-> TRUE, reachable |-> TRUE, ok |-> TRUE]
          /\ sender = TRUE
          /\ loop = "recv"
          /\ session \in {[ns |-> NoneStr, db |-> NoneStr], [ns |-> "ns0", db |-> "db0"]}
          /\ session_vars \in VarMaps

(***************************************************************************)
(* The specification of Query chains: one caller builds a chain of         *)
(* fragments and binds on a client that is connected or not, and awaits    *)
(* it; the loop takes the route.                                           *)
(***************************************************************************)
\* fragments that parse, and two that fail with different errors
Fragments == {Ok(Q1), Ok(Q2), Err(ParseError), Err(Error("Parse", "fragment2"))}

Pair(key, value) == Array(<<Strand(key), value>>)

QueryInit ==
    /\ DispatchInit
    /\ session = [ns |-> NoneStr, db |-> NoneStr]
    /\ session_vars = EmptyMap

\* what a chain binds: pairs, objects, a pair whose value is a pair, and
\* values that are neither an object nor a [string, value] pair
QueryNext ==
    \/ \E fragment \in Fragments : Query_new(1, fragment)
    \/ \E fragment \in Fragments : Query_query(1, fragment)
    \/ \E bindings \in
            { Pair("k1", Strand("a")),
              Pair("k2", Pair("k1", Strand("x"))),
              ObjectOf(<<Pair("k1", Strand("c")), Pair("k2", Strand("d"))>>),
              ObjectOf(<<Pair("k3", Pair("k1", Strand("x")))>>),
              Strand("oops"),
              Array(<<Strand("k1"), Strand("a"), Strand("b")>>),
              Array(<<Null, Strand("a")>>) } : Query_bind(1, bindings)
    \/ \E kv \in {<<"k1", Strand("e")>>, <<"k2", Pair("k1", Strand("x"))>>} :
          Query_bind_key_value(1, kv[1], kv[2])
    \/ Query_await(1)
    \/ router_next

QuerySpec == QueryInit /\ [][QueryNext]_vars

(***************************************************************************)
(* The specification of connect: a client is made connected by             *)
(* Surreal::connect, or made by Surreal::new() and connected later, with   *)
(* the embedded Db or with the test double Client, and with any capacity.  *)
(* Callers then share its route queue with the version lookup.  For the    *)
(* requests used here the loop of the test double answers as the embedded  *)
(* one does.                                                               *)
(* The Datastore of the embedded backend is a static of the process, so    *)
(* an earlier client of the process may have set it before this one       *)
(* connects.                                                               *)
(***************************************************************************)
\* the addresses of a connect: a backend, and whether its Datastore can be
\* opened there (the mock server of the test double opens nothing)
Addresses == {<<conn, reachable>> \in {"Db", "Test"} \X BOOLEAN : conn = "Db" \/ reachable}

ConnectInit ==
    /\ router_cell = "unset"
    /\ handles \in {0, 1}
    /\ made = handles
    /\ capacity = 0
    /\ backend = ""
    /\ DB \in {"unset", "set"}
    /\ peers = [p \in Peers |-> NoPeer]
    /\ connect_res = NoConnect
    /\ last_id = 0
    /\ ids = <<>>
    /\ logs = <<>>
    /\ route_q = <<>>
    /\ sender = FALSE
    /\ loop = "unspawned"
    /\ cur = NoRoute
    /\ outcome = NoResult
    /\ session = [ns |-> NoneStr, db |-> NoneStr]
    /\ session_vars = EmptyMap
    /\ kvs_call = NoCall
    /\ kvs_ret = NoEnv
    /\ calls = [c \in Calls |-> IdleCall]
    /\ chans = <<>>
    /\ enq = <<>>
    /\ replied = <<>>

ConnectNext ==
    \/ \E a \in Addresses, cap \in Capacities : Static_connect(a[1], cap, a[2])
    \/ \E a \in Addresses, cap \in Capacities : Surreal_connect(a[1], cap, a[2], MaxCalls)
    \/ version_call(MaxCalls)
    \/ \E log \in {"none", "warn_range", "warn_build", "trace"} : version_logged(MaxCalls, log)
    \/ \E c \in Calls,
          fut \in (IF backend = "Db" THEN {HealthFut, AuthenticateFut("token")}
                   ELSE {HealthFut}) : Call(c, fut)
    \/ \E c \in Calls : Recv(c)
    \/ router_next
    \/ \E env \in Envs(cur.request) : router_serve(env)
    \/ router_reply

ConnectSpec == ConnectInit /\ [][ConnectNext]_vars

(***************************************************************************)
(* The specification of Export among other calls: the callers of a         *)
(* connected client export to a file and make other calls; the loop task   *)
(* is scheduled fairly and a caller polls its receiver.                    *)
(***************************************************************************)

ExportInit ==
    /\ DispatchInit
    /\ router_cell = "set"
    /\ session_vars = EmptyMap

ExportNext ==
    \/ \E c \in Calls, fut \in {ExportFut("dump.sql"), HealthFut, UseNsDb("ns1", "db1")} :
          Call(c, fut)
    \/ \E c \in Calls : Recv(c)
    \/ router_next
    \/ \E env \in Envs(cur.request) : router_serve(env)
    \/ router_reply

ExportSpec ==
    /\ ExportInit
    /\ [][ExportNext]_vars
    /\ WF_vars(router_next)
    /\ WF_vars(\E env \in Envs(cur.request) : router_serve(env))
    /\ WF_vars(router_reply)
    /\ \A c \in Calls : WF_vars(Recv(c))

(***************************************************************************)
(* The specification of cancellation: the callers of a connected client    *)
(* make calls that change the Session, call the engine or end the dispatch *)
(* task, and may drop a call once its route is enqueued; the loop task is  *)
(* scheduled fairly and a caller that keeps its call polls its receiver.   *)
(***************************************************************************)
CancelInit ==
    /\ DispatchInit
    /\ router_cell = "set"
    /\ session = [ns |-> "ns0", db |-> "db0"]
    /\ session_vars = EmptyMap

CancelNext ==
    \/ \E c \in Calls,
          fut \in { SetFut("k1", Strand("new")), UseDb("db1"),
                   AuthenticateFut("token"), ResourceFut("Delete", John) } :
        Call(c, fut)
    \/ \E c \in Calls : Recv(c)
    \/ \E c \in Calls : Cancel(c)
    \/ router_next
    \/ \E env \in Envs(cur.request) : router_serve(env)
    \/ router_reply

CancelSpec ==
    /\ CancelInit
    /\ [][CancelNext]_vars
    /\ WF_vars(router_next)
    /\ WF_vars(\E env \in Envs(cur.request) : router_serve(env))
    /\ WF_vars(router_reply)
    /\ \A c \in Calls : WF_vars(Recv(c))

(***************************************************************************)
(* The specification of request identifiers: the callers of a connected    *)
(* client, through any of its handles, take identifiers from its Router.   *)
(***************************************************************************)
NextIdNext ==
    \/ \E a \in Addresses, cap \in Capacities : Static_connect(a[1], cap, a[2])
    \/ \E a \in Addresses, cap \in Capacities : Surreal_connect(a[1], cap, a[2], MaxCalls)
    \/ CloneHandle
    \/ \E c \in Calls : next_id(c)

NextIdSpec == ConnectInit /\ [][NextIdNext]_vars

(***************************************************************************)
(* The specification of connects on a static client that is connected or   *)
(* is being connected: the connect that sets the router is Static_connect, *)
(* another one runs step by step beside it and beside the calls of the     *)
(* client.  The loop task of the connect that loses is scheduled fairly.   *)
(***************************************************************************)
ReconnectNext ==
    \/ \E reachable \in BOOLEAN : Static_connect("Db", 0, reachable)
    \/ \E reachable \in BOOLEAN : peer_connect(1, "static", reachable)
    \/ peer_router(1)
    \/ peer_connected(1)
    \/ peer_next(1)
    \/ \E c \in Calls, fut \in {UseNsDb("ns1", "db1"), ResourceFut("Delete", John)} :
          Call(c, fut)
    \/ \E c \in Calls : Recv(c)
    \/ router_next
    \/ \E env \in Envs(cur.request) : router_serve(env)
    \/ router_reply

ReconnectSpec ==
    /\ ConnectInit
    /\ [][ReconnectNext]_vars
    /\ WF_vars(peer_next(1))

(***************************************************************************)
(* The specification of the embedded connects of one process: separate     *)
(* clients connect, to addresses that can be opened or not, in any         *)
(* interleaving of the steps of their tasks, and their callers make calls  *)
(* through any of their handles.                                           *)
(***************************************************************************)
ProcessNext ==
    \/ \E p \in Peers, reachable \in BOOLEAN : peer_connect(p, "separate", reachable)
    \/ \E p \in Peers : peer_router(p)
    \/ \E p \in Peers : peer_connected(p)
    \/ \E p \in Peers : peer_clone(p)
    \/ \E p \in Peers, h \in 1..MaxHandles,
          fut \in {UseNsDb("ns1", "db1"), SetFut("k1", Strand("new")), UnsetFut("k1"),
                   ResourceFut("Delete", John), AuthenticateFut("token")} :
          \E env \in Envs(Unwrap(into_future(fut, Ok("router")))) :
              peer_execute(p, h, fut, env)

ProcessSpec ==
    /\ ConnectInit
    /\ [][ProcessNext]_vars

\* the accessor calls of a caller: statement indexes up to one past the
\* largest batch, item indexes and ranges inside and outside the lists
StatementIndexes == 0..2

DispatchNext ==
    \/ \E fut \in AllFuts : Call(1, fut)
    \/ Recv(1)
    \/ \E n \in StatementIndexes : Access(1, "query_result", n, RangeFull)
    \/ \E n \in StatementIndexes,
          ior \in {Idx(0), Idx(1), Rng(0, 1), Rng(0, 2), Rng(1, 1), Rng(1, 0), RangeFull} :
          Access(1, "get", n, ior)
    \/ \E n \in StatementIndexes : Access(1, "index", n, RangeFull)
    \/ router_next
    \/ \E env \in Envs(cur.request) : router_serve(env)
    \/ router_reply

DispatchSpec == DispatchInit /\ [][DispatchNext]_vars

(***************************************************************************)
(* Properties                                                              *)
(***************************************************************************)
IsPrefix(a, b) == Len(a) <= Len(b) /\ \A i \in 1..Len(a) : a[i] = b[i]

\* C1: the loop takes routes in the order they were enqueued and sends a
\* route's reply before it takes the next one: the replies sent so far are
\* those of the first routes enqueued, in that order, and the route being
\* processed is the oldest one not yet answered.
C1_FifoService ==
    /\ IsPrefix(replied, enq)
    /\ cur.some => /\ Len(enq) > Len(replied)
                   /\ cur.caller = enq[Len(replied) + 1]

\* a second route is being processed after the reply of the first was sent
C1_Witness ==
    /\ loop = "serve"
    /\ Len(replied) >= 1
    /\ cur.some
    /\ cur.caller # replied[1]

\* C2: no two calls share a reply channel, a reply is only ever put into
\* the channel of the call whose route it answers, and what a caller
\* receives is the reply computed from its own request.
C2_OwnReply ==
    /\ \A c, d \in Calls :
          (c # d /\ calls[c].rx # 0 /\ calls[d].rx # 0) => calls[c].rx # calls[d].rx
    /\ \A k \in 1..Len(chans) : \A i \in 1..Len(chans[k].buf) :
          LET m == chans[k].buf[i]
          IN  /\ calls[m.caller].rx = k
              /\ m.request = calls[m.caller].request
    /\ \A c \in Calls :
          calls[c].got.caller # 0 =>
              /\ calls[c].got.caller = c
              /\ calls[c].got.request = calls[c].request
              /\ calls[c].result = calls[c].got.res

\* two concurrent callers with different requests each received their own,
\* different, reply
C2_Witness ==
    \E c, d \in Calls :
        /\ c # d
        /\ calls[c].pc = "done" /\ calls[d].pc = "done"
        /\ calls[c].got.caller = c /\ calls[d].got.caller = d
        /\ calls[c].request # calls[d].request
        /\ calls[c].result # calls[d].result

C7_Step(expected(_)) ==
    \A c \in Calls :
        (router_cell = "unset" /\ calls[c].pc = "idle" /\ calls'[c].pc # "idle") =>
            /\ calls'[c].pc = "done"
            /\ calls'[c].result = Err(expected(calls'[c].fut))
            /\ route_q' = route_q
            /\ chans' = chans

C7_Uninitialised(fut) == connection_uninitialised

\* C7 as stated: every call on a client whose router was never set resolves
\* to the connection-uninitialized error, enqueuing nothing and waiting for
\* nothing.
C7_Original == [][C7_Step(C7_Uninitialised)]_vars

C7_Deferred(fut) ==
    LET bad == {i \in 1..Len(fut.query) : ~fut.query[i].ok}
    IN  IF fut.method = "Query" /\ bad # {}
        THEN fut.query[CHOOSE i \in bad : \A j \in bad : i <= j].err
        ELSE IF fut.method = "Query" /\ ~fut.bindings.ok THEN fut.bindings.err
        ELSE connection_uninitialised

\* C7 amended: every call on a client whose router was never set resolves at
\* once to an error, enqueuing nothing and waiting for nothing; the error is
\* connection-uninitialized, except that a Query whose chain holds a
\* fragment that failed to parse, or invalid bindings, resolves to that
\* deferred error (the first failed fragment's, else the bindings').
C7_Amended == [][C7_Step(C7_Deferred)]_vars

\* a call on the unconnected client resolved to connection-uninitialized
C7_Witness ==
    /\ router_cell = "unset"
    /\ \E c \in Calls : /\ calls[c].pc = "done"
                        /\ calls[c].fut.method # "Query"
                        /\ calls[c].result = Err(connection_uninitialised)
                        /\ calls[c].rx = 0

\* the dispatcher has answered the route in `cur` and the reply is pending
Dispatched(methods) == loop = "reply" /\ cur.request.method \in methods
\* the target of the request in `cur` is one record id
SingleTarget == cur.request.param.other[1].t = "thing"
\* the engine ran the statement of `cur` without error
StatementOk == kvs_ret.kvs.ok /\ Unwrap(kvs_ret.kvs)[1].ok
\* the result array of that statement
Rows == Unwrap(Unwrap(kvs_ret.kvs)[1]).v

\* C3: for Select, Update, Merge and Patch on one record id, and for
\* Create, the reply is an error exactly when the statement errored; it is
\* Ok(none) when the statement returned no row; and when the statement
\* returned a row it is Ok of that row (or of the single element of a row
\* that is a one-element array), not wrapped in a result array.
C3_SingleRecordReply ==
    (/\ Dispatched({"Create", "Select", "Update", "Merge", "Patch"})
     /\ cur.request.method = "Create" \/ SingleTarget) =>
        IF ~StatementOk THEN ~outcome.ok
        ELSE IF Rows = <<>> THEN outcome = Ok(Other(None))
        ELSE LET row == Rows[Len(Rows)]
             IN  \/ outcome = Ok(Other(row))
                 \/ /\ row.t = "array"
                    /\ Len(row.v) = 1
                    /\ outcome = Ok(Other(row.v[1]))

\* the reply to a `methods` request on a table or a set of records is the
\* statement's whole result array
C4_List(methods) ==
    (Dispatched(methods) /\ ~SingleTarget /\ StatementOk) =>
        outcome = Ok(Other(Array(Rows)))

\* C4 as stated: for every table (or set) target, Select, Update and Delete
\* reply with the statement's full result array, unreduced (the empty list
\* when nothing matched), never with a scalar or the none marker.
C4_Original == C4_List({"Select", "Update", "Delete"})

\* C4 amended: for every table (or set) target, Select and Update reply,
\* when the statement succeeds, with the statement's full result array,
\* unreduced (the empty list when nothing matched), never with a scalar or
\* the none marker; Delete is reduced like a single-record call and, its
\* statement returning no rows, replies with the none marker.
C4_Amended ==
    /\ C4_List({"Select", "Update"})
    /\ (Dispatched({"Delete"}) /\ ~SingleTarget /\ StatementOk) => outcome = Ok(Other(None))

\* a Select on a table got both rows of the statement's result as a list
C4_Witness ==
    /\ Dispatched({"Select"})
    /\ ~SingleTarget
    /\ StatementOk
    /\ Len(Rows) = 2
    /\ outcome = Ok(Other(Array(Rows)))

\* C9: every Use request the API builds (use_ns(ns).use_db(db), and
\* use_db(db) alone) that reaches the dispatcher sets the Session's ns and
\* db from its two parameters, is answered with the void value, and never
\* fails or ends the loop.
C9_UseSucceeds ==
    \A c \in Calls :
        (calls[c].fut.method = "Use" /\ calls[c].rx # 0) =>
            /\ loop # "panicked"
            /\ calls[c].pc = "done" => calls[c].result = Ok(Other(None))
            /\ (loop = "reply" /\ cur.caller = c) =>
                  /\ outcome = Ok(Other(None))
                  /\ session = [ns |-> cur.request.param.other[1].s,
                                db |-> cur.request.param.other[2].s]

\* C10: the engine runs a Query with the call's bindings laid over the
\* Session's (the call's value for a key in both), and the Session's map is
\* the same after the Query as before.
C10_QueryBindings ==
    [][(loop = "serve" /\ cur.request.method = "Query" /\ loop' = "reply") =>
          LET local == cur.request.param.query.bindings
          IN  /\ session_vars' = session_vars
              /\ kvs_call'.called
              /\ kvs_call'.query = cur.request.param.query.stmts
              /\ DOMAIN kvs_call'.vars = DOMAIN session_vars \cup DOMAIN local
              /\ \A k \in DOMAIN local : kvs_call'.vars[k] = local[k]
              /\ \A k \in DOMAIN session_vars \ DOMAIN local :
                    kvs_call'.vars[k] = session_vars[k]]_vars

\* a Query ran with a key bound both in the Session and in the call, to
\* different values, and with a key bound in the Session only
C10_Witness ==
    /\ Dispatched({"Query"})
    /\ LET local == cur.request.param.query.bindings
       IN  /\ \E k \in DOMAIN local \cap DOMAIN session_vars :
                 /\ local[k] # session_vars[k]
                 /\ kvs_call.vars[k] = local[k]
           /\ \E k \in DOMAIN session_vars \ DOMAIN local :
                 kvs_call.vars[k] = session_vars[k]

\* the None sentinel is in the queue
SentinelQueued == \E i \in 1..Len(route_q) : ~route_q[i].some
\* the loop task has ended
LoopStopped == loop \in {"exited", "panicked"}

C8_EveryCallResolves ==
    \A c \in Calls : (calls[c].pc = "sent") ~> (calls[c].pc # "sent")

\* C13: Set(k, v) leaves the Session's map holding k -> v (whatever k held
\* before) and every other key as it was; Unset(k) removes k and nothing
\* else (nothing at all when k is absent); both are answered with the void
\* value, without a call of the engine.
C13_SetUnset ==
    [][(loop = "serve" /\ cur.request.method \in {"Set", "Unset"} /\ loop' # loop) =>
          LET k == cur.request.param.other[1].s
              rest == DOMAIN session_vars \ {k}
          IN  /\ loop' = "reply"
              /\ outcome' = Ok(Other(None))
              /\ ~kvs_call'.called
              /\ \A j \in rest : j \in DOMAIN session_vars' /\ session_vars'[j] = session_vars[j]
              /\ IF cur.request.method = "Set"
                 THEN /\ DOMAIN session_vars' = rest \cup {k}
                      /\ session_vars'[k] = cur.request.param.other[2]
                 ELSE DOMAIN session_vars' = rest]_vars

\* a Set replaced the earlier value of a key and kept the other key
C13_Witness ==
    /\ Dispatched({"Set"})
    /\ cur.request.param.other[1].s = "k1"
    /\ DOMAIN session_vars = {"k1", "k2"}
    /\ session_vars["k1"] = Strand("new")
    /\ session_vars["k2"] = Strand("old2")

\* the statements of the Query in `cur`, the engine's response to each and
\* the slots of the QueryResponse the dispatcher made of them
Statements == cur.request.param.query.stmts
Responses == Unwrap(kvs_ret.kvs)
Slots == Unwrap(outcome).results

C12_ErrorInItsSlot ==
    /\ (Dispatched({"Query"}) /\ kvs_ret.kvs.ok) =>
           /\ outcome.ok
           /\ \A i \in 1..Len(Statements) :
                 /\ Slots[i].ok <=> Responses[i].ok
                 /\ ~Responses[i].ok =>
                        Slots[i].err = Error("Query", Statements[i].text)
    /\ \A c \in Calls :
           LET a == calls[c].access
               response == Unwrap(calls[c].result).results
           IN  (a.done /\ a.kind = "get" /\ a.n < Len(response)) =>
                  IF response[a.n + 1].ok THEN a.out.res.ok
                  ELSE a.out.res = Err(response[a.n + 1].err)

\* the first statement of a batch of two errored, and the caller got the
\* full list of the second
C12_Witness ==
    \E c \in Calls :
        LET a == calls[c].access
            response == Unwrap(calls[c].result).results
        IN  /\ a.done /\ a.kind = "get" /\ a.n = 1
            /\ Len(response) = 2
            /\ ~response[1].ok
            /\ a.out.res = Ok(Array(<<Object("r1")>>))

\* the item index or range `ior` is not fully inside a list of `len` items
OutOfRange(ior, len) ==
    CASE ior.kind = "index" -> ior.lo >= len
      [] ior.kind = "range" -> ior.lo > ior.hi \/ ior.hi > len
      [] OTHER -> FALSE

\* C18: an access of a QueryResponse at a statement index beyond its
\* length, through query_result, get or the index operator, and a get on a
\* statement that did not error at an item index or range not fully inside
\* its list, gives the absent / default value: never an error, never a
\* panic.
C18_OutOfRangeIsAbsent ==
    \A c \in Calls :
        LET a == calls[c].access
            response == Unwrap(calls[c].result).results
        IN  a.done =>
              /\ a.n >= Len(response) =>
                    /\ ~a.out.panic
                    /\ a.kind = "query_result" => ~a.out.some
                    /\ a.kind = "get" => a.out.res = Ok(Default)
                    /\ a.kind = "index" => ~a.out.some
              /\ (/\ a.n < Len(response)
                  /\ a.kind = "get"
                  /\ response[a.n + 1].ok
                  /\ OutOfRange(a.ior, Len(Unwrap(response[a.n + 1])))) =>
                    a.out.res = Ok(Default)

\* the value is a two-element array whose first element is a string
IsPair(x) == x.t = "array" /\ Len(x.v) = 2 /\ x.v[1].t = "strand"
\* the bind call `b` of a chain was given an object, a pair or a key and value
ValidBind(b) == b.kind = "key_value" \/ b.value.t = "object" \/ IsPair(b.value)
\* the keys the bind call `b` names, and the value it gives to key k
KeysOf(b) ==
    CASE b.kind = "key_value" -> {b.key}
      [] IsPair(b.value) -> {b.value.v[1].s}
      [] b.value.t = "object" -> {b.value.v[i].v[1].s : i \in 1..Len(b.value.v)}
      [] OTHER -> {}
ValueOf(b, k) ==
    CASE b.kind = "key_value" -> b.value
      [] IsPair(b.value) -> b.value.v[2]
      [] OTHER -> (b.value.v[CHOOSE i \in 1..Len(b.value.v) : b.value.v[i].v[1].s = k]).v[2]
\* the fragments of a chain that failed to parse, and the first of them
Failed(fut) == {i \in 1..Len(fut.query) : ~fut.query[i].ok}
FirstFailed(fut) == CHOOSE i \in Failed(fut) : \A j \in Failed(fut) : i <= j
\* the statements of the fragments, in call order
RECURSIVE Concat(_)
Concat(fragments) ==
    IF fragments = <<>> THEN <<>> ELSE Unwrap(Head(fragments)) \o Concat(Tail(fragments))
\* the caller c awaits its chain in this step
Awaited(c) == calls[c].pc = "building" /\ calls'[c].pc # "building"
\* this step resolves the chain of c to the error e, and sends nothing
ResolvesTo(c, e) ==
    /\ calls'[c].pc = "done"
    /\ calls'[c].result = Err(e)
    /\ route_q' = route_q
    /\ chans' = chans

\* C14: a .query or .bind call on a chain is accepted whatever the chain
\* holds: it keeps the fragments already there, in order, and resolves
\* nothing; awaiting a chain with a failed fragment resolves to the error of
\* the (first) failed fragment and sends nothing; awaiting a chain without
\* one sends, when anything is sent, one request whose statements are the
\* fragments' statements in call order.
C14_ChainedFragments ==
    [][\A c \in Calls :
          LET fut == calls[c].fut
          IN  /\ (calls[c].pc = "building" /\ calls'[c].pc = "building") =>
                    /\ IsPrefix(fut.query, calls'[c].fut.query)
                    /\ calls'[c].result = NoResult
                    /\ route_q' = route_q
              /\ Awaited(c) =>
                    IF Failed(fut) # {}
                    THEN ResolvesTo(c, fut.query[FirstFailed(fut)].err)
                    ELSE /\ (fut.bindings.ok /\ router_cell = "set") => calls'[c].pc = "sent"
                         /\ calls'[c].pc = "sent" =>
                               /\ Len(route_q') = Len(route_q) + 1
                               /\ IsPrefix(route_q, route_q')
                               /\ route_q'[Len(route_q')].request.method = "Query"
                               /\ route_q'[Len(route_q')].request.param.query.stmts
                                      = Concat(fut.query)]_vars

\* a chain of two fragments was sent as one request of their statements in
\* call order
C14_Witness ==
    \E c \in Calls :
        /\ calls[c].pc = "sent"
        /\ calls[c].fut.query = <<Ok(Q2), Ok(Q1)>>
        /\ Len(route_q) = 1
        /\ route_q[1].request.param.query.stmts = <<Sql("q2"), Sql("q1")>>

\* C15: in a chain whose bind calls were all given a key and value, a pair
\* or an object, the bindings hold exactly the keys those calls named, each
\* bound to the value the last call naming it gave.
C15_LastBindWins ==
    \A c \in Calls :
        LET fut == calls[c].fut
            binds == fut.binds
        IN  (\A i \in 1..Len(binds) : ValidBind(binds[i])) =>
              /\ fut.bindings.ok
              /\ DOMAIN Unwrap(fut.bindings) = UNION {KeysOf(binds[i]) : i \in 1..Len(binds)}
              /\ \A k \in DOMAIN Unwrap(fut.bindings) :
                    LET last == CHOOSE i \in 1..Len(binds) :
                                   /\ k \in KeysOf(binds[i])
                                   /\ \A j \in 1..Len(binds) : k \in KeysOf(binds[j]) => j <= i
                    IN  Unwrap(fut.bindings)[k] = ValueOf(binds[last], k)

\* a pair bound k1, then an object bound k1 to another value and k2
C15_Witness ==
    \E c \in Calls :
        /\ Len(calls[c].fut.binds) = 2
        /\ calls[c].fut.binds[1].value = Pair("k1", Strand("a"))
        /\ calls[c].fut.binds[2].value.t = "object"
        /\ calls[c].fut.bindings.ok
        /\ Unwrap(calls[c].fut.bindings)["k1"] = Strand("c")

\* this step is a bind call of c's chain, whose bindings were a map
BindStep(c) ==
    /\ calls[c].fut.bindings.ok
    /\ Len(calls'[c].fut.binds) = Len(calls[c].fut.binds) + 1
    /\ calls'[c].fut.binds[Len(calls'[c].fut.binds)].kind = "bind"

\* C16: binding a [string-key, value] pair leaves the pending bindings as
\* binding the one-field object {key: value} would, the key bound to the
\* value as given (also when the value is itself a [string, x] pair); a
\* value of any other shape that is not an object makes the bindings
\* invalid.
C16_PairShorthand ==
    [][\A c \in Calls :
          BindStep(c) =>
              LET x == calls'[c].fut.binds[Len(calls'[c].fut.binds)].value
                  after == calls'[c].fut.bindings
              IN  /\ IsPair(x) =>
                        /\ after = bind(calls[c].fut.bindings, ObjectOf(<<x>>))
                        /\ after.ok
                        /\ Unwrap(after)[x.v[1].s] = x.v[2]
                        /\ \A k \in DOMAIN Unwrap(calls[c].fut.bindings) \ {x.v[1].s} :
                              Unwrap(after)[k] = Unwrap(calls[c].fut.bindings)[k]
                  /\ (~IsPair(x) /\ x.t # "object") => ~after.ok]_vars

\* a pair whose value is itself a [string, x] pair was bound: the key holds
\* the inner pair, unchanged
C16_Witness ==
    \E c \in Calls :
        /\ calls[c].fut.bindings.ok
        /\ Len(calls[c].fut.binds) >= 1
        /\ calls[c].fut.binds[Len(calls[c].fut.binds)].value = Pair("k2", Pair("k1", Strand("x")))
        /\ DOMAIN Unwrap(calls[c].fut.bindings) = {"k2"}
        /\ Unwrap(calls[c].fut.bindings)["k2"] = Pair("k1", Strand("x"))

\* a bind call of the chain was given a value that is neither an object
\* nor a [string, value] pair
HasInvalidBind(fut) == \E i \in 1..Len(fut.binds) : ~ValidBind(fut.binds[i])

\* C17 as stated: a chain with an invalid bind call stays invalid whatever
\* is bound later, and awaiting it resolves to the invalid-bindings error
\* and sends nothing.
C17_Original ==
    [][\A c \in Calls :
          HasInvalidBind(calls[c].fut) =>
              /\ calls[c].fut.bindings = Err(InvalidBindings)
              /\ Awaited(c) => ResolvesTo(c, InvalidBindings)]_vars

\* C17 amended: a chain with an invalid bind call stays invalid whatever is
\* bound later, and awaiting it resolves to an error and sends nothing: the
\* invalid-bindings error, or, when a fragment of the chain failed to
\* parse, the error of the first such fragment.
C17_Amended ==
    [][\A c \in Calls :
          HasInvalidBind(calls[c].fut) =>
              /\ calls[c].fut.bindings = Err(InvalidBindings)
              /\ Awaited(c) =>
                    ResolvesTo(c, IF Failed(calls[c].fut) # {}
                                  THEN calls[c].fut.query[FirstFailed(calls[c].fut)].err
                                  ELSE InvalidBindings)]_vars

\* a chain with an invalid bind followed by a valid one was awaited on a
\* connected client and resolved to invalid-bindings, nothing sent
C17_Witness ==
    \E c \in Calls :
        /\ router_cell = "set"
        /\ calls[c].pc = "done"
        /\ Len(calls[c].fut.binds) = 2
        /\ ~ValidBind(calls[c].fut.binds[1])
        /\ ValidBind(calls[c].fut.binds[2])
        /\ calls[c].result = Err(InvalidBindings)
        /\ route_q = <<>>

\* C19: on a connected client, whatever the backend, a capacity of 0 gives
\* an unbounded queue, so that an enqueue never has to wait while the loop
\* runs, and a capacity n > 0 a queue that never holds more than n entries;
\* an enqueue is never dropped and never fails while the loop runs.
C19_QueueBound ==
    /\ [](router_cell = "set" =>
             IF capacity = 0 THEN LoopAlive => HasRoom
             ELSE Len(route_q) <= capacity)
    /\ [][\A c \in Calls :
             (calls[c].pc \in {"idle", "spawned"} /\ calls'[c].pc # calls[c].pc
                /\ router_cell = "set" /\ LoopAlive) =>
                 /\ calls'[c].pc = "sent"
                 /\ route_q' = Append(route_q, Route(calls'[c].request, calls'[c].rx, c))]_vars

\* C20: every successful connect, by Surreal::connect or of a static
\* client, returns with the router set and a version lookup started on the
\* new connection (and not yet answered).
C20_VersionLookupStarted ==
    [][(router_cell = "unset" /\ router_cell' = "set") =>
          \E c \in Calls :
              /\ calls'[c].task
              /\ calls'[c].pc = "spawned"
              /\ calls'[c].fut = VersionFut]_vars

\* the methods that only a remote backend serves
AuthMethods == {"Signin", "Signup", "Authenticate", "Invalidate"}

\* C21: a Signin, Signup, Authenticate or Invalidate route ends the
\* dispatch task where it is dispatched: the step changes neither the
\* Session nor the vars, calls the engine with nothing and sends no reply;
\* no reply channel ever carries an answer to such a request, and its caller
\* never holds a success value or an error the dispatcher replied with.
C21_AuthIsFatal ==
    /\ [][(loop = "serve" /\ cur.request.method \in AuthMethods /\ loop' # loop) =>
             /\ loop' = "panicked"
             /\ session' = session
             /\ session_vars' = session_vars
             /\ ~kvs_call'.called
             /\ replied' = replied
             /\ \A k \in 1..Len(chans') : chans'[k].buf = <<>>]_vars
    /\ [](/\ \A k \in 1..Len(chans) :
                chans[k].buf # <<>> => Head(chans[k].buf).request.method \notin AuthMethods
          /\ \A c \in Calls :
                calls[c].request.method \in AuthMethods =>
                    /\ ~calls[c].result.ok
                    /\ calls[c].got = Message(NoResult, NoRoute)
                    /\ calls[c].pc = "done" =>
                           calls[c].result = Err(Error("Recv", "disconnected")))

\* a Signin was dispatched on a session in use: the task is gone, the
\* session is as it was and the caller's receive failed
C21_Witness ==
    /\ loop = "panicked"
    /\ session = [ns |-> "ns0", db |-> "db0"]
    /\ calls[1].request.method = "Signin"
    /\ calls[1].pc = "done"
    /\ calls[1].result = Err(Error("Recv", "disconnected"))
    /\ replied = <<>>

\* the dispatcher serves the Import in `cur`
ImportStep == loop = "serve" /\ cur.request.method = "Import" /\ loop' # loop
\* what the reply of an Import has to be when the file was read and the
\* statements gave `responses`: the first error in file order, else void
ImportReply(responses) ==
    IF \A i \in 1..Len(responses) : responses[i].ok THEN outcome' = Ok(Other(None))
    ELSE \E i \in 1..Len(responses) :
            /\ ~responses[i].ok
            /\ \A j \in 1..(i - 1) : responses[j].ok
            /\ outcome' = Err(responses[i].err)
\* a file that cannot be opened or read: an I/O error, no statement run
ImportIoError ==
    /\ ~outcome'.ok
    /\ outcome'.err.kind = "Io"
    /\ ~kvs_call'.called

\* C22 as stated: the reply of an Import is the I/O error when the file
\* cannot be read, and else a function of the statements' results alone:
\* the first error among them, void when there is none.
C22_Original ==
    [][ImportStep =>
          /\ loop' = "reply"
          /\ IF ~kvs_ret'.io THEN ImportIoError
             ELSE ImportReply(IF kvs_ret'.kvs.ok THEN Unwrap(kvs_ret'.kvs) ELSE <<>>)]_vars

\* C22, amended: the reply of an Import is the I/O error when the file
\* cannot be read (and then the engine is not called); the error of the
\* engine when it rejects the file as a whole; and when the engine ran the
\* statements, the first error among their results in file order, void
\* when there is none.
C22_Amended ==
    [][ImportStep =>
          /\ loop' = "reply"
          /\ IF ~kvs_ret'.io THEN ImportIoError
             ELSE /\ kvs_call'.called
                  /\ IF ~kvs_ret'.kvs.ok THEN outcome' = Err(kvs_ret'.kvs.err)
                     ELSE ImportReply(Unwrap(kvs_ret'.kvs))]_vars

\* an Import whose two statements both failed was answered with the error
\* of the first
C22_Witness ==
    /\ Dispatched({"Import"})
    /\ kvs_ret.io
    /\ kvs_ret.kvs = Ok(<<Err(Error("Db", "e2")), Err(Error("Db", "e1"))>>)
    /\ outcome = Err(Error("Db", "e2"))

\* C23: a connect to an address at which the backend cannot be opened
\* returns an error, produces no client handle (the router of a static
\* client stays unset) and leaves no dispatch loop running.
C23_FailedConnect ==
    [][(connect_res' # connect_res /\ ~connect_res'.reachable) =>
          /\ ~connect_res'.ok
          /\ router_cell' = "unset"
          /\ handles' = handles
          /\ loop' \notin {"recv", "serve", "reply"}]_vars

\* the position of a record id in ascending order of the ids of the table
Rank(id) == CHOOSE i \in 1..Len(Records) : Records[i] = id
\* record i of the table lies within the bounds
InBounds(i, beg, end) ==
    /\ CASE beg.t = "Included" -> Rank(beg.s) <= i
         [] beg.t = "Excluded" -> Rank(beg.s) < i
         [] OTHER -> TRUE
    /\ CASE end.t = "Included" -> i <= Rank(end.s)
         [] end.t = "Excluded" -> i < Rank(end.s)
         [] OTHER -> TRUE
\* the records within the bounds, in ascending order of their ids
RECURSIVE Within(_, _, _)
Within(i, beg, end) ==
    IF i > Len(Records) THEN <<>>
    ELSE (IF InBounds(i, beg, end) THEN <<RecordId(Records[i])>> ELSE <<>>)
         \o Within(i + 1, beg, end)

Queued(k) == \E i \in 1..Len(route_q) : route_q[i].some /\ route_q[i].response = k
Taken(k) == cur.some /\ cur.response = k
NoDuplicates(seq) == \A i, j \in 1..Len(seq) : seq[i] = seq[j] => i = j

\* C25: a route is in the queue at most once and the loop takes it out of
\* the queue when it dequeues it, after which it is never in the queue or
\* dequeued again; the loop leaves a route it serviced by exactly one reply
\* send, and sends replies for nothing else; a reply channel whose sender
\* has sent (or was dropped) never gets a message, so that no channel
\* receives more than one.
C25_OnceEach ==
    /\ [](/\ \A i, j \in 1..Len(route_q) :
                (route_q[i].some /\ route_q[j].some
                   /\ route_q[i].response = route_q[j].response) => i = j
          /\ \A k \in 1..Len(chans) : ~(Queued(k) /\ Taken(k)) /\ Len(chans[k].buf) <= 1
          /\ NoDuplicates(replied))
    /\ [][\A k \in 1..Len(chans) :
             /\ (Taken(k)' /\ ~Taken(k)) => (Queued(k) /\ ~Queued(k)')
             /\ (~Queued(k) /\ Queued(k)') => FALSE
             /\ (chans'[k].buf # chans[k].buf /\ chans'[k].buf # <<>>) =>
                    /\ chans[k].tx /\ ~chans'[k].tx
                    /\ loop = "reply" /\ Taken(k)]_vars
    /\ [][/\ (loop = "reply" /\ loop' # "reply") =>
                 /\ replied' = Append(replied, cur.caller)
                 /\ ~chans'[cur.response].tx
          /\ replied' # replied => (loop = "reply" /\ loop' # "reply")
          /\ (loop = "serve" /\ loop' = "reply") => cur' = cur]_vars

\* the loop has dequeued and answered the routes of all callers, and the
\* first caller has received its reply
C25_Witness ==
    /\ Len(replied) = MaxCalls
    /\ route_q = <<>>
    /\ calls[enq[1]].pc = "done"
    /\ calls[enq[1]].got.caller = enq[1]
    /\ \A k \in 1..Len(chans) : ~chans[k].tx

\* C27: for a single-record target, when the last value of the result
\* array of the statement is an array of exactly one element, the reply is
\* that element as it is, also when the element is itself an array.
C27_UnwrapOneLevel ==
    (/\ Dispatched({"Create", "Select", "Update", "Patch", "Merge"})
     /\ SingleTarget
     /\ StatementOk
     /\ Rows # <<>>
     /\ Rows[Len(Rows)].t = "array"
     /\ Len(Rows[Len(Rows)].v) = 1) =>
        outcome = Ok(Other(Rows[Len(Rows)].v[1]))

\* the inner element was itself a one-element array and was replied as it is
C27_Witness ==
    /\ Dispatched({"Patch"})
    /\ SingleTarget
    /\ StatementOk
    /\ Rows = <<Array(<<Array(<<Object("op")>>)>>)>>
    /\ outcome = Ok(Other(Array(<<Object("op")>>)))

\* C28: the identifiers next_id returned on one Router, in the order they
\* were allocated and whichever callers took them, start from 0, are
\* strictly increasing and so pairwise distinct.
C28_DistinctIncreasingIds ==
    /\ ids # <<>> => ids[1].id = 0
    /\ \A i, j \in 1..Len(ids) : i < j => ids[i].id < ids[j].id

\* two callers took identifiers in turn
C28_Witness ==
    /\ Len(ids) = MaxIds
    /\ ids[1].caller # ids[2].caller
    /\ ids[2].caller # ids[3].caller

\* the dispatcher serves the Export in `cur`
ExportStep == loop = "serve" /\ cur.request.method = "Export" /\ loop' # loop

\* C29: serving an Export never ends the loop, whatever the engine's
\* export does: the dispatcher returns a reply and leaves the queued routes
\* in the queue; the reply is an error exactly when the file could not be
\* opened or written, and then an I/O error; a failure of the engine's
\* export is logged and does not change the reply, which is void when the
\* file was written; and every call enqueued, the Export's and the ones
\* behind it, gets its reply.
C29_ExportFailureLogged ==
    /\ [][ExportStep =>
             /\ loop' = "reply"
             /\ cur' = cur
             /\ route_q' = route_q
             /\ outcome'.ok <=> kvs_ret'.io
             /\ kvs_ret'.io => outcome' = Ok(Other(None))
             /\ ~kvs_ret'.io => outcome'.err.kind = "Io"
             /\ ~kvs_ret'.kvs.ok => logs' = Append(logs, kvs_ret'.kvs.err)]_vars
    /\ \A c \in Calls :
          (calls[c].pc = "sent") ~> (calls[c].pc = "done" /\ calls[c].got.caller = c)

\* the engine's export failed: the error is in the log, the Export was
\* answered with the void value and the call queued behind it was answered
C29_Witness ==
    /\ Len(replied) = 2
    /\ calls[replied[1]].request.method = "Export"
    /\ calls[replied[1]].pc = "done"
    /\ calls[replied[1]].result = Ok(Other(None))
    /\ logs = <<EngineError>>
    /\ calls[replied[2]].pc = "done"
    /\ calls[replied[2]].result.ok

\* the caller of the route dropped its receiver after the route was enqueued
Orphaned(route) == route.some /\ ~chans[route.response].rx
\* the route of caller c is in the queue or held by the loop
Pending(c) ==
    \/ \E i \in 1..Len(route_q) : route_q[i].some /\ route_q[i].caller = c
    \/ cur.some /\ cur.caller = c
Answered(c) == \E i \in 1..Len(replied) : replied[i] = c
\* the dispatcher returned for the route in `cur`, with the effects on the
\* Session, the vars and the engine and the result that router gives for
\* the request
Serviced ==
    /\ loop' = "reply"
    /\ cur' = cur
    /\ LET out == router(cur.request, session, session_vars, kvs_ret')
       IN  /\ out.tag = "reply"
           /\ session' = [ns |-> out.session.ns, db |-> out.session.db]
           /\ session_vars' = out.vars
           /\ kvs_call' = out.call
           /\ outcome' = out.res
\* the loop sends the reply of an orphaned route: the send fails, nothing
\* is delivered, and the loop is back at the stream with the queue as it was
ReplyIgnored ==
    (loop = "reply" /\ Orphaned(cur) /\ loop' # loop) =>
        /\ loop' = "recv"
        /\ chans'[cur.response].buf = <<>>
        /\ replied' = Append(replied, cur.caller)
        /\ route_q' = route_q
        /\ session' = session
        /\ session_vars' = session_vars

C31_BoundVariables ==
    Dispatched({"Live", "Kill"}) =>
        LET live == cur.request.method = "Live"
        IN  /\ kvs_call.called
            /\ kvs_call.query = <<Sql(IF live THEN LiveSql ELSE KillSql)>>
            /\ kvs_call.vars = Insert(EmptyMap, IF live THEN "table" ELSE "id",
                                      cur.request.param.other[1])

\* a Live is dispatched while Set has bound `table` to another value
C31_Witness ==
    /\ Dispatched({"Live"})
    /\ "table" \in DOMAIN session_vars
    /\ session_vars["table"] # cur.request.param.other[1]
    /\ kvs_call.vars["table"] = cur.request.param.other[1]

\* C32: the namespace and the database of the Session change only in the
\* dispatch of a Use, and the binding map only in the dispatch of a Set or
\* an Unset: the dispatch of every other method, whether it replies with a
\* value or an error or ends the task, and every other step, leaves them
\* as they were.
C32_SessionFrame ==
    [][/\ session' # session => loop = "serve" /\ cur.request.method = "Use"
       /\ session_vars' # session_vars =>
              loop = "serve" /\ cur.request.method \in {"Set", "Unset"}]_vars

\* a method other than Use, Set and Unset replied with an error on a
\* connection whose Session holds a namespace, a database and bindings
C32_Witness ==
    /\ loop = "reply"
    /\ cur.request.method \notin {"Use", "Set", "Unset"}
    /\ ~outcome.ok
    /\ session = [ns |-> "ns0", db |-> "db0"]
    /\ session_vars # EmptyMap

\* the positions of the route queue that hold the None sentinel
Sentinels == {i \in 1..Len(route_q) : ~route_q[i].some}

\* C33: the route queue holds at most one None sentinel, which is its last
\* element and is there only once the Router and every handle are gone;
\* the step that enqueues it drops the Router's sender, and once that
\* sender is dropped nothing is enqueued any more, so no second sentinel
\* and no route follows it.
C33_SentinelIsLast ==
    /\ [](/\ Cardinality(Sentinels) <= 1
          /\ \A i \in Sentinels : i = Len(route_q) /\ ~sender /\ handles = 0)
    /\ [][/\ Len(route_q') > Len(route_q) => sender
          /\ (router_cell = "set" /\ ~sender) => ~sender']_vars

\* the sentinel is in the queue behind a route that was enqueued before it
C33_Witness ==
    /\ Len(route_q) >= 2
    /\ ~route_q[Len(route_q)].some
    /\ route_q[1].some

\* C37: once the dispatch task has ended on a fatal branch, no reply is
\* sent any more, and every call, the one whose route ended the task, those
\* whose routes were in the queue and those made later, resolves to an
\* error: none of them waits forever.
C37_AbortResolves ==
    /\ [][loop = "panicked" => replied' = replied]_vars
    /\ \A c \in Calls :
          (loop = "panicked" /\ calls[c].pc = "sent")
              ~> (calls[c].pc = "cancelled" \/ (calls[c].pc = "done" /\ ~calls[c].result.ok))

\* C38: a successful reply of the dispatcher is the Query variant exactly
\* when the method of the request is Query, and the future of a call
\* receives through recv_query exactly when its method is Query; so no call
\* reaches the variant mismatch of recv or recv_query (a call panics only in
\* an accessor of the response it received).
C38_VariantsMatch ==
    /\ (loop = "reply" /\ outcome.ok) =>
           (Unwrap(outcome).kind = "Query" <=> cur.request.method = "Query")
    /\ \A c \in Calls :
          /\ calls[c].pc # "idle" =>
                 (calls[c].fut.recv = "recv_query" <=> calls[c].fut.method = "Query")
          /\ calls[c].pc = "panicked" => calls[c].access.done

\* a Query future took a query response from recv_query
C38_Witness ==
    /\ calls[1].pc = "done"
    /\ calls[1].fut.recv = "recv_query"
    /\ calls[1].result.ok
    /\ Unwrap(calls[1].result).kind = "Query"
    /\ ~calls[1].access.done

\* C39: whenever the last handle of a connection can be dropped (no call
\* is pending on it), Drop for Router completes at once: its send of the
\* sentinel does not wait, whatever the capacity of the route queue and
\* the number of routes in it.
C39_DropNeverWaits ==
    (/\ router_cell = "set"
     /\ handles = 1
     /\ \A c \in Calls : calls[c].pc # "sent") => ENABLED DropHandle

\* C40: for a single-record call whose statement ran without error, the
\* reply is the none marker only if the result array of the statement is
\* empty or its last value is none or null: a statement whose last value is
\* anything else is never answered with none.
C40_NoneOnlyIfNoValue ==
    (/\ Dispatched({"Create", "Select", "Update", "Merge", "Patch"})
     /\ cur.request.method = "Create" \/ SingleTarget
     /\ StatementOk
     /\ outcome = Ok(Other(None))) =>
        \/ Rows = <<>>
        \/ Rows[Len(Rows)].t \in {"none", "null"}

\* C34: a connect on the static client that finds the router already set,
\* whether it started after the connect that set it or beside it, returns
\* Ok(()); the step in which it returns leaves the router that is set, its
\* route queue, its loop and its Session as they were; and the connection
\* it made holds the None sentinel in its route queue from that step on,
\* until its loop takes it and exits, which it eventually does.  A connect
\* whose task starts once the router is set finds the Datastore in DB, so
\* it does not open its address and cannot fail.
C34_LosingConnect ==
    /\ [][(peers[1].pc = "spawned" /\ router_cell = "set") =>
              peers'[1].pc \in {"spawned", "ready"}]_vars
    /\ [](peers[1].pc = "lost" =>
            /\ router_cell = "set"
            /\ \/ peers[1].loop = "recv" /\ peers[1].q = send_none(<<>>)
               \/ peers[1].loop = "exited" /\ peers[1].q = <<>>)
    /\ [][(peers[1].pc # "lost" /\ peers'[1].pc = "lost") =>
              UNCHANGED <<router_cell, handles, capacity, route_q, sender, loop, cur,
                          outcome, session, session_vars, calls, chans>>]_vars
    /\ (peers[1].pc = "lost") ~> (peers[1].loop = "exited")

\* the loop of the losing connect has exited, and a call of the client is
\* dispatched with the namespace that a Use set on the router that won
C34_Witness ==
    /\ peers[1].pc = "lost"
    /\ peers[1].loop = "exited"
    /\ session = [ns |-> "ns1", db |-> "db1"]
    /\ loop = "reply"
    /\ cur.request.method = "Delete"
    /\ kvs_call.ns = "ns1"

\* C35: the loop task of every connect that succeeded holds the Datastore
\* that the static DB holds, and DB, once set, keeps the Datastore it was
\* first given: all connected clients of the process use that one
\* instance, whatever their addresses and however the steps of their
\* connects interleave.
C35_OneEngine ==
    /\ [](\A p \in Peers : peers[p].kvs # "" => peers[p].kvs = DB)
    /\ [][DB # "unset" => DB' = DB]_vars

\* two first connects raced: both found DB empty and opened a Datastore,
\* and the first one uses the Datastore the second one put in DB
C35_Witness ==
    /\ peers[1].opened
    /\ peers[2].opened
    /\ peers[1].kvs = Datastore(2)
    /\ peers[2].kvs = Datastore(2)
    /\ peers[1].pc = "connected"
    /\ peers[2].pc = "connected"

\* C36: a step of one connection (a call through any of its handles)
\* changes nothing of any other connection; and the engine call of a
\* request is made with the namespace, the database and the bindings that
\* the earlier Use, Set and Unset requests of that same connection left,
\* whichever handles they and it came through.
C36_SessionPerConnection ==
    [][\A p \in Peers :
          /\ peers'[p] # peers[p] => \A q \in Peers \ {p} : peers'[q] = peers[q]
          /\ (<<peers'[p].call, peers'[p].via>> # <<peers[p].call, peers[p].via>>
                  /\ peers'[p].call.called) =>
                 /\ peers'[p].call.ns = peers[p].session.ns
                 /\ peers'[p].call.db = peers[p].session.db
                 /\ peers'[p].call.vars = peers[p].vars]_vars

\* two connections share the Datastore; a call through the second handle of
\* one ran with the namespace and the binding its connection was given, a
\* call of the other with none
C36_Witness ==
    /\ peers[1].kvs = peers[2].kvs
    /\ peers[1].call.called
    /\ peers[1].via = 2
    /\ peers[1].call.ns = "ns1"
    /\ "k1" \in DOMAIN peers[1].call.vars
    /\ peers[2].call.called
    /\ peers[2].call.ns = NoneStr
    /\ peers[2].call.vars = EmptyMap

====
